---- MODULE Spec2Model ----
(***************************************************************************)
(* Clause segmentation pipeline of backend/tools.py:                       *)
(*   extract_clauses -> split_into_subclauses -> _cap_clauses.             *)
(* A string is a sequence of one-character strings; a clause dict is a     *)
(* record whose optional keys (parentHeading, subClauseIndex) are present  *)
(* only when the code sets them.  The field id stands for the identity of  *)
(* the Python dict object (id(c)), which _cap_clauses uses.                *)
(***************************************************************************)
EXTENDS Integers, Sequences, FiniteSets, TLC

\* contract_text : the text handed to extract_clauses
\* clauses       : the list handed to split_into_subclauses (the result of
\*                 extract_clauses, or the validated K2 entries)
\* expanded      : the list handed to _cap_clauses
\* capped, limit : the result of _cap_clauses and the limit it was called with
\* pc            : the step of the pipeline reached
\* used          : the number of input fragments drawn so far
\* doc           : the pages of the PDF the position locators open
\* ocr_words     : the flat word list of ocr_pdf_with_positions
\* positions     : the result of extract_clause_positions or of
\*                 match_clauses_to_ocr_boxes for the list clauses
\* seed_rect     : the rectangle start_rect handed to _expand_to_paragraph
\* para_rects    : the rectangles _expand_to_paragraph returns
\* k2_reply      : what the K2 call of extract_clauses_k2 came back with
\* run_pc        : the step of _run_analysis / run_contract_analysis reached
\* env           : how the services answer during the run (RAG, K2, Convex
\*                 clause table, summary sources)
\* task_pc       : per clause, the step of _analyze_one_clause_throttled
\* rag_context   : per clause, the local rag_context of _analyze_one_clause
\* task_result   : per clause, what its task returned to asyncio.gather
\* sem           : the value of the semaphore sem
\* counter       : counter["completed"]
\* sent          : the completedClauses values handed to reviews:updateProgress
\*                 by the clause tasks, in the order of the calls
\* saved_clauses : the clauses stored by clauses:addClause
\* clause_results: the list asyncio.gather returned
\* summary_log   : the summary sources _generate_summary has tried, in order
\* summary_data  : what _generate_summary returned
\* review        : the review document in Convex (status, results)
VARIABLES contract_text, clauses, expanded, capped, limit, pc, used,
          doc, ocr_words, positions, seed_rect, para_rects, k2_reply,
          run_pc, env, task_pc, rag_context, task_result, sem, counter, sent,
          saved_clauses, clause_results, summary_log, summary_data, review

vars == <<contract_text, clauses, expanded, capped, limit, pc, used,
          doc, ocr_words, positions, seed_rect, para_rects, k2_reply,
          run_pc, env, task_pc, rag_context, task_result, sem, counter, sent,
          saved_clauses, clause_results, summary_log, summary_data, review>>

posvars == <<doc, ocr_words, positions>>

expvars == <<seed_rect, para_rects>>

k2vars == <<k2_reply>>

taskvars == <<task_pc, rag_context, task_result, sem, counter, sent,
              saved_clauses>>

runvars == <<run_pc, env, taskvars, clause_results, summary_log, summary_data,
             review>>

\* the variables the segmentation pipeline and the locators leave alone
latervars == <<expvars, k2vars, runvars>>

\* no analysis run has been started
RunIdle ==
    /\ run_pc = "idle"
    /\ env = <<>>
    /\ task_pc = <<>>
    /\ rag_context = <<>>
    /\ task_result = <<>>
    /\ sem = 0
    /\ counter = 0
    /\ sent = <<>>
    /\ saved_clauses = {}
    /\ clause_results = <<>>
    /\ summary_log = <<>>
    /\ summary_data = <<>>
    /\ review = <<>>

\* ---------------------------------------------------------------- bounds
\* longest clause list handed directly to _cap_clauses
MaxCapClauses == 5
\* largest limit tried
MaxLimit == 4
\* fragments making up the texts of the clauses handed to split_into_subclauses
MaxLines == 3
\* fragments making up a contract text
MaxPieces == 4
\* longest contract text
MaxTextLen == 3040
\* longest clause list handed to a position locator
MaxPosClauses == 2
\* most pages of a document
MaxPages == 2
\* runs of OCR words making up the word list
MaxOcrPieces == 2
\* sections appended to a contract text in one step, at most
SectionBlock == 31
\* steps that append sections to a contract text
MaxSectionBlocks == 2
\* entries of the longest K2 clause list
K2ListLen == 62
\* words of the longest run of OCR words
FillerLen == 38

\* ------------------------------------------------------- program constants
\* extract_clauses_k2: a text of up to this many characters goes to K2 whole
K2_SINGLE_PASS_MAX == 6000
\* the default limit of _cap_clauses
MAX_CLAUSES == 60
\* extract_clauses: sections and paragraphs shorter than this are dropped
MIN_SECTION_LEN == 30
\* extract_clauses, split_into_subclauses: heading[:100]
HEADING_CAP == 100
\* extract_clauses: next_line[:80]
NEXT_LINE_CAP == 80
\* extract_clauses, split_into_subclauses: text[:3000]
TEXT_CAP == 3000
\* split_into_subclauses: a preamble is kept when longer than this
PREAMBLE_MIN == 30
\* split_into_subclauses: a child shorter than this is skipped
SUB_MIN == 20

\* ------------------------------------------------------------- helpers
Min(a, b) == IF a <= b THEN a ELSE b

Range(s) == {s[i] : i \in 1..Len(s)}

\* Python slice s[:n] for n >= 0
Prefix(s, n) == SubSeq(s, 1, Min(n, Len(s)))

\* c.get("parentHeading"): the value when the key is present and the string is
\* non-empty is truthy; a missing key (None) and "" are falsy
HasParentHeading(c) == "parentHeading" \in DOMAIN c

TruthyParentHeading(c) == HasParentHeading(c) /\ c.parentHeading # <<>>

\* ------------------------------------------------------- input fragments
\* a line opening with a decimal marker (46 characters)
Conf ==
    <<"3", ".", "1", " ", "C", "o", "n", "f", "i", "d", "e", "n", "t", "i",
     "a", "l", "i", "t", "y", ".", " ", "P", "a", "r", "t", "y", " ", "s",
     "h", "a", "l", "l", " ", "n", "o", "t", " ", "d", "i", "s", "c", "l",
     "o", "s", "e", ".">>

\* a second decimal marker at the start of its own line
NlRem ==
    <<"\n", "3", ".", "2", " ", "R", "e", "m", "e", "d", "i", "e", "s", ".",
     " ", "I", "n", "j", "u", "n", "c", "t", "i", "v", "e", " ", "r", "e",
     "l", "i", "e", "f", " ", "a", "v", "a", "i", "l", "a", "b", "l", "e",
     ".">>

\* the same marker continuing the previous line
SpRem ==
    <<" ", "3", ".", "2", " ", "R", "e", "m", "e", "d", "i", "e", "s", ".",
     " ", "I", "n", "j", "u", "n", "c", "t", "i", "v", "e", " ", "r", "e",
     "l", "i", "e", "f", " ", "a", "v", "a", "i", "l", "a", "b", "l", "e",
     ".">>

\* an indented lettered line of 19 characters after trimming
NlShortB ==
    <<"\n", " ", " ", "(", "b", ")", " ", "g", "i", "v", "e", " ", "n", "o",
     "t", "i", "c", "e", " ", "n", "o", "w">>

\* a lettered line of 20 characters after trimming
NlLetA ==
    <<"\n", "(", "a", ")", " ", "p", "a", "y", " ", "a", "l", "l", " ", "f",
     "e", "e", "s", " ", "d", "u", "e">>

\* 31 characters without any marker
Pre31 ==
    <<"T", "h", "e", " ", "S", "u", "p", "p", "l", "i", "e", "r", " ", "a",
     "g", "r", "e", "e", "s", " ", "a", "s", " ", "f", "o", "l", "l", "o",
     "w", "s", ":">>

\* 30 characters without any marker
Pre30 ==
    <<"T", "h", "e", " ", "C", "o", "m", "p", "a", "n", "y", " ", "a", "g",
     "r", "e", "e", "s", " ", "a", "s", " ", "f", "o", "l", "l", "o", "w",
     "s", ":">>

\* a single-level heading line of 24 characters
NlTerm ==
    <<"\n", "1", ".", " ", "T", "e", "r", "m", " ", "o", "f", " ", "t", "h",
     "e", " ", "a", "g", "r", "e", "e", "m", "e", "n", "t">>

\* a bare number, a heading when it opens a line and ends it
Num ==
    <<"2", ".", "1">>

\* a heading line of the ARTICLE form
NlArticle ==
    <<"\n", "A", "R", "T", "I", "C", "L", "E", " ", "I", "V">>

\* a blank line
Blank ==
    <<"\n", "\n">>

\* a line of 105 letters, longer than a heading and than a next_line
NlLong == <<"\n">> \o [i \in 1..105 |-> "w"]

\* 2990 letters on one line: with any 11 more characters a text over 3000
Big == [i \in 1..2990 |-> "v"]

SplitPieces == {Conf, NlRem, SpRem, NlShortB, Pre31, Pre30}

ExtractPieces ==
    {NlTerm, Num, NlArticle, Blank, Pre31, NlLetA, NlShortB, NlLong, Big}

\* headings the K2 response may carry: "3. C" and ""
SplitHeadings == <<<<"3", ".", " ", "C">>, <<>>>>

RECURSIVE Concat(_)
Concat(ps) == IF ps = <<>> THEN <<>> ELSE Head(ps) \o Concat(Tail(ps))

\* ------------------------------------------------------ character classes
Digits == {"0", "1", "2", "3", "4", "5", "6", "7", "8", "9"}

Lower == {"a", "b", "c", "d", "e", "f", "g", "h", "i", "j", "k", "l", "m",
         "n", "o", "p", "q", "r", "s", "t", "u", "v", "w", "x", "y", "z"}

Upper == {"A", "B", "C", "D", "E", "F", "G", "H", "I", "J", "K", "L", "M",
         "N", "O", "P", "Q", "R", "S", "T", "U", "V", "W", "X", "Y", "Z"}

\* \s over the characters used here
Space == {" ", "\n"}

\* [ivxlc]
RomanLower == {"i", "v", "x", "l", "c"}

\* [\.\)]
DotParen == {".", ")"}

\* the character at 1-based position p, "" past either end
At(t, p) == IF p \in 1..Len(t) THEN t[p] ELSE ""

\* the position after the longest run of characters of class C starting at p
\* (a greedy C* ; the run is followed by a character outside C, so no shorter
\* run lets the rest of any pattern below match)
RECURSIVE RunEnd(_, _, _)
RunEnd(t, p, C) == IF p <= Len(t) /\ t[p] \in C THEN RunEnd(t, p + 1, C) ELSE p

\* the position before the longest run of class C ending at p
RECURSIVE RunStart(_, _, _)
RunStart(t, p, C) == IF p >= 1 /\ t[p] \in C THEN RunStart(t, p - 1, C) ELSE p

\* the least member of a non-empty set of integers
MinOf(S) == CHOOSE x \in S : \A y \in S : x <= y

\* str.find(ch) from position p, Len + 1 when absent
IndexOf(t, ch, p) == MinOf({q \in p..Len(t) : t[q] = ch} \cup {Len(t) + 1})

\* str.strip()
Strip(s) ==
    LET lo == RunEnd(s, 1, Space)
        hi == RunStart(s, Len(s), Space)
    IN  IF lo > Len(s) THEN <<>> ELSE SubSeq(s, lo, hi)

\* s.split("\n", 1)[0]
FirstLine(s) == SubSeq(s, 1, IndexOf(s, "\n", 1) - 1)

\* ----------------------------------------------------- _SUB_CLAUSE_PATTERN
\* \d+\.\d+[\.\)]*\s at k: the position after the match, 0 when none
SubDecimalEnd(t, k) ==
    LET d1 == RunEnd(t, k, Digits)
        d2 == RunEnd(t, d1 + 1, Digits)
        d3 == RunEnd(t, d2, DotParen)
    IN  IF d1 > k /\ At(t, d1) = "." /\ d2 > d1 + 1 /\ At(t, d3) \in Space
        THEN d3 + 1 ELSE 0

\* \([a-z]\)\s  and  \([A-Z]\)\s
SubLetterEnd(t, k) ==
    IF At(t, k) = "(" /\ At(t, k + 1) \in (Lower \cup Upper)
       /\ At(t, k + 2) = ")" /\ At(t, k + 3) \in Space
    THEN k + 4 ELSE 0

\* \([ivxlc]+\)\s
SubRomanEnd(t, k) ==
    LET r == RunEnd(t, k + 1, RomanLower)
    IN  IF At(t, k) = "(" /\ r > k + 1 /\ At(t, r) = ")" /\ At(t, r + 1) \in Space
        THEN r + 2 ELSE 0

\* [a-z][\.\)]\s
SubBareEnd(t, k) ==
    IF At(t, k) \in Lower /\ At(t, k + 1) \in DotParen /\ At(t, k + 2) \in Space
    THEN k + 3 ELSE 0

\* \d+\.\d+\.\d+[\.\)]*\s
SubDecimal3End(t, k) ==
    LET d1 == RunEnd(t, k, Digits)
        d2 == RunEnd(t, d1 + 1, Digits)
        d3 == RunEnd(t, d2 + 1, Digits)
        d4 == RunEnd(t, d3, DotParen)
    IN  IF d1 > k /\ At(t, d1) = "." /\ d2 > d1 + 1 /\ At(t, d2) = "."
           /\ d3 > d2 + 1 /\ At(t, d4) \in Space
        THEN d4 + 1 ELSE 0

\* the alternation, first alternative that matches
SubMarkerEnd(t, k) ==
    IF SubDecimalEnd(t, k) > 0 THEN SubDecimalEnd(t, k)
    ELSE IF SubLetterEnd(t, k) > 0 THEN SubLetterEnd(t, k)
    ELSE IF SubRomanEnd(t, k) > 0 THEN SubRomanEnd(t, k)
    ELSE IF SubBareEnd(t, k) > 0 THEN SubBareEnd(t, k)
    ELSE SubDecimal3End(t, k)

\* the pattern without its line anchor
SubLineAnchor_anywhere(t, p) == TRUE

\* (?:^|\n) with re.MULTILINE: p is a line start, or the character at p is \n
SubLineAnchor(t, p) == p = 1 \/ At(t, p - 1) = "\n" \/ At(t, p) = "\n"

\* the whole pattern matched with its first character at p: (?:^|\n)\s*(marker);
\* every marker starts with a non-space, so \s* takes the whole run of spaces
SubMatchEnd(t, p) ==
    IF p \in 1..Len(t) /\ SubLineAnchor(t, p)
    THEN SubMarkerEnd(t, RunEnd(t, p, Space)) ELSE 0

\* _SUB_CLAUSE_PATTERN.finditer(text): the start positions (1-based) of the
\* non-overlapping matches, leftmost first, each search resuming at the end of
\* the previous match
RECURSIVE SubFindFrom(_, _, _)
SubFindFrom(t, cand, from) ==
    LET later == {p \in cand : p >= from}
    IN  IF later = {} THEN <<>>
        ELSE LET p == MinOf(later)
             IN  <<p>> \o SubFindFrom(t, cand, SubMatchEnd(t, p))

sub_matches(t) == SubFindFrom(t, {p \in 1..Len(t) : SubMatchEnd(t, p) > 0}, 1)

\* ------------------------------------------- extract_clauses: the pattern
\* does the literal w stand at position k
LiteralAt(t, k, w) == \A i \in 1..Len(w) : At(t, k + i - 1) = w[i]

\* \d+\.\d+(?:\.\d+)*[\.\)]*\s : after the first two numbers every further
\* ".number" is taken while a digit follows the dot
RECURSIVE HeadDecimalTail(_, _)
HeadDecimalTail(t, d) ==
    IF At(t, d) = "." /\ At(t, d + 1) \in Digits
    THEN HeadDecimalTail(t, RunEnd(t, d + 1, Digits))
    ELSE d

HeadDecimal(t, k) ==
    LET d1 == RunEnd(t, k, Digits)
        d2 == RunEnd(t, d1 + 1, Digits)
        d3 == HeadDecimalTail(t, d2)
        d4 == RunEnd(t, d3, DotParen)
    IN  d1 > k /\ At(t, d1) = "." /\ d2 > d1 + 1 /\ At(t, d4) \in Space

\* \d+[\.\)]\s
HeadSingle(t, k) ==
    LET d1 == RunEnd(t, k, Digits)
    IN  d1 > k /\ At(t, d1) \in DotParen /\ At(t, d1 + 1) \in Space

\* Section\s+\d
HeadSection(t, k) ==
    LET w == RunEnd(t, k + 7, Space)
    IN  /\ LiteralAt(t, k, <<"S", "e", "c", "t", "i", "o", "n">>)
        /\ w > k + 7 /\ At(t, w) \in Digits

\* ARTICLE\s+[IVX\d]
HeadArticle(t, k) ==
    LET w == RunEnd(t, k + 7, Space)
    IN  /\ LiteralAt(t, k, <<"A", "R", "T", "I", "C", "L", "E">>)
        /\ w > k + 7 /\ At(t, w) \in ({"I", "V", "X"} \cup Digits)

\* [A-Z][A-Z\s]{3,}:
HeadCaps(t, k) ==
    LET r == RunEnd(t, k + 1, Upper \cup Space)
    IN  At(t, k) \in Upper /\ r >= k + 4 /\ At(t, r) = ":"

\* the lookahead (?= ... ) at position k
HeadingAt(t, k) ==
    \/ HeadDecimal(t, k)
    \/ HeadSingle(t, k)
    \/ HeadSection(t, k)
    \/ HeadArticle(t, k)
    \/ HeadCaps(t, k)

\* re.split(pattern, contract_text), no MULTILINE: ^ matches at the start of
\* the text only (an empty match, which splits off an empty first section);
\* elsewhere the match is the newline before a heading, which is consumed
RECURSIVE SectionsFrom(_, _, _)
SectionsFrom(t, cuts, from) ==
    LET later == {p \in cuts : p >= from}
    IN  IF later = {} THEN <<SubSeq(t, from, Len(t))>>
        ELSE LET p == MinOf(later)
             IN  <<SubSeq(t, from, p - 1)>> \o SectionsFrom(t, cuts, p + 1)

re_split_sections(t) ==
    LET cuts == {p \in 1..Len(t) : t[p] = "\n" /\ HeadingAt(t, p + 1)}
    IN  (IF HeadingAt(t, 1) THEN <<<<>>>> ELSE <<>>) \o SectionsFrom(t, cuts, 1)

\* ------------------------------------------------ extract_clauses: the loop
\* re.match(r"^\d+[\.\d]*[\.\)]*$", heading); heading holds no newline
NumericHeading(h) ==
    LET e1 == RunEnd(h, 1, Digits)
        e2 == RunEnd(h, e1, Digits \cup {"."})
        e3 == RunEnd(h, e2, DotParen)
    IN  e1 > 1 /\ e3 = Len(h) + 1

\* the heading taken from the first line without the [:100]
section_heading_uncapped(section) ==
    LET nl1 == IndexOf(section, "\n", 1)
        nl2 == IndexOf(section, "\n", nl1 + 1)
        heading == Strip(SubSeq(section, 1, nl1 - 1))
        next_line == Prefix(Strip(SubSeq(section, nl1 + 1, nl2 - 1)), NEXT_LINE_CAP)
    IN  IF NumericHeading(heading) /\ nl1 <= Len(section)
        THEN Prefix(heading \o <<" ">> \o next_line, HEADING_CAP)
        ELSE heading

\* heading of a stripped section: lines = section.split("\n", 2)
section_heading(section) ==
    LET nl1 == IndexOf(section, "\n", 1)
        nl2 == IndexOf(section, "\n", nl1 + 1)
        heading == Prefix(Strip(SubSeq(section, 1, nl1 - 1)), HEADING_CAP)
        next_line == Prefix(Strip(SubSeq(section, nl1 + 1, nl2 - 1)), NEXT_LINE_CAP)
    IN  IF NumericHeading(heading) /\ nl1 <= Len(section)
        THEN Prefix(heading \o <<" ">> \o next_line, HEADING_CAP)
        ELSE heading

\* the loop without the minimum-length test
RECURSIVE extract_sections_keep_short(_, _, _)
extract_sections_keep_short(sections, i, n) ==
    IF i > Len(sections) THEN <<>>
    ELSE LET section == Strip(sections[i])
         IN  <<[id |-> <<n + 1, 0>>,
                heading |-> section_heading(section),
                text |-> Prefix(section, TEXT_CAP)]>>
             \o extract_sections_keep_short(sections, i + 1, n + 1)

\* the clauses of sections i.., n being the number of clauses appended so far
RECURSIVE extract_sections(_, _, _)
extract_sections(sections, i, n) ==
    IF i > Len(sections) THEN <<>>
    ELSE LET section == Strip(sections[i])
         IN  IF Len(section) < MIN_SECTION_LEN
             THEN extract_sections(sections, i + 1, n)
             ELSE <<[id |-> <<n + 1, 0>>,
                     heading |-> section_heading(section),
                     text |-> Prefix(section, TEXT_CAP)]>>
                  \o extract_sections(sections, i + 1, n + 1)

\* str(n) for n >= 0
DigitChar == <<"0", "1", "2", "3", "4", "5", "6", "7", "8", "9">>

RECURSIVE IntToStr(_)
IntToStr(n) ==
    IF n < 10 THEN <<DigitChar[n + 1]>>
    ELSE IntToStr(n \div 10) \o <<DigitChar[(n % 10) + 1]>>

\* contract_text.split("\n\n"): cut at each "\n\n" found left to right
RECURSIVE SplitBlankLines(_, _)
SplitBlankLines(t, from) ==
    LET hits == {p \in from..(Len(t) - 1) : t[p] = "\n" /\ t[p + 1] = "\n"}
    IN  IF hits = {} THEN <<SubSeq(t, from, Len(t))>>
        ELSE LET p == MinOf(hits)
             IN  <<SubSeq(t, from, p - 1)>> \o SplitBlankLines(t, p + 2)

\* the fallback loop over enumerate(paragraphs): paragraph i (1-based here, so
\* the heading number i + 1 of the code is i), n clauses appended so far
RECURSIVE extract_paragraphs(_, _, _)
extract_paragraphs(paragraphs, i, n) ==
    IF i > Len(paragraphs) THEN <<>>
    ELSE LET para == Strip(paragraphs[i])
         IN  IF Len(para) < MIN_SECTION_LEN
             THEN extract_paragraphs(paragraphs, i + 1, n)
             ELSE <<[id |-> <<n + 1, 0>>,
                     heading |-> <<"S", "e", "c", "t", "i", "o", "n", " ">>
                                 \o IntToStr(i),
                     text |-> Prefix(para, TEXT_CAP)]>>
                  \o extract_paragraphs(paragraphs, i + 1, n + 1)

\* extract_clauses without the paragraph fallback
extract_clauses_no_fallback(t) == extract_sections(re_split_sections(t), 1, 0)

extract_clauses(t) ==
    LET found == extract_sections(re_split_sections(t), 1, 0)
    IN  IF found # <<>> THEN found
        ELSE extract_paragraphs(SplitBlankLines(t, 1), 1, 0)

\* --------------------------------------------------- split_into_subclauses
\* the children without the minimum-length test
RECURSIVE split_children_keep_short(_, _, _)
split_children_keep_short(c, m, j) ==
    IF j > Len(m) THEN <<>>
    ELSE LET start == m[j]
             end == IF j + 1 <= Len(m) THEN m[j + 1] ELSE Len(c.text) + 1
             sub_text == Strip(SubSeq(c.text, start, end - 1))
             sub_heading == Prefix(Strip(FirstLine(sub_text)), HEADING_CAP)
             child == [id |-> <<c.id[1], j + 1>>,
                       heading |-> sub_heading,
                       text |-> Prefix(sub_text, TEXT_CAP),
                       parentHeading |-> c.heading,
                       subClauseIndex |-> j - 1]
         IN  <<child>> \o split_children_keep_short(c, m, j + 1)

\* the children of one clause for the matches j..Len(m), in marker order;
\* subClauseIndex is the index i of enumerate(matches)
RECURSIVE split_children(_, _, _)
split_children(c, m, j) ==
    IF j > Len(m) THEN <<>>
    ELSE LET start == m[j]
             end == IF j + 1 <= Len(m) THEN m[j + 1] ELSE Len(c.text) + 1
             sub_text == Strip(SubSeq(c.text, start, end - 1))
             sub_heading == Prefix(Strip(FirstLine(sub_text)), HEADING_CAP)
             child == [id |-> <<c.id[1], j + 1>>,
                       heading |-> sub_heading,
                       text |-> Prefix(sub_text, TEXT_CAP),
                       parentHeading |-> c.heading,
                       subClauseIndex |-> j - 1]
         IN  (IF Len(sub_text) < SUB_MIN THEN <<>> ELSE <<child>>)
             \o split_children(c, m, j + 1)

\* the preamble kept from 30 characters on
split_preamble_from_30(c, m) ==
    LET preamble == Strip(SubSeq(c.text, 1, m[1] - 1))
    IN  IF Len(preamble) >= PREAMBLE_MIN
        THEN <<[id |-> <<c.id[1], 1>>, heading |-> c.heading,
                text |-> Prefix(preamble, TEXT_CAP)]>>
        ELSE <<>>

\* the preamble entry of a clause whose first match starts at m[1]
split_preamble(c, m) ==
    LET preamble == Strip(SubSeq(c.text, 1, m[1] - 1))
    IN  IF Len(preamble) > PREAMBLE_MIN
        THEN <<[id |-> <<c.id[1], 1>>, heading |-> c.heading,
                text |-> Prefix(preamble, TEXT_CAP)]>>
        ELSE <<>>

\* the loop body with the threshold one lower: a single marker already splits
split_one_eager(c) ==
    LET matches == sub_matches(c.text)
    IN  IF Len(matches) < 1 THEN <<c>>
        ELSE split_preamble(c, matches) \o split_children(c, matches, 1)

\* one iteration of the loop over clauses
split_one(c) ==
    LET matches == sub_matches(c.text)
    IN  IF Len(matches) < 2 THEN <<c>>
        ELSE split_preamble(c, matches) \o split_children(c, matches, 1)

RECURSIVE split_from(_, _)
split_from(cl, i) ==
    IF i > Len(cl) THEN <<>> ELSE split_one(cl[i]) \o split_from(cl, i + 1)

split_into_subclauses(cl) == split_from(cl, 1)

\* ------------------------------------------------------------ _cap_clauses
\* the partition with the test inverted
cap_top_level_inverted(cl) == SelectSeq(cl, LAMBDA c : TruthyParentHeading(c))

cap_top_level(cl) == SelectSeq(cl, LAMBDA c : ~TruthyParentHeading(c))

cap_sub_clauses(cl) == SelectSeq(cl, LAMBDA c : TruthyParentHeading(c))

\* a rebuild that forgets the original order: top-level first, then the subs
cap_rebuild_unordered(cl, top_level, kept_subs) == top_level \o kept_subs

cap_rebuild(cl, top_level, kept_subs) ==
    LET kept_set == {c.id : c \in Range(top_level)} \cup {c.id : c \in Range(kept_subs)}
    IN  SelectSeq(cl, LAMBDA c : c.id \in kept_set)

_cap_clauses(cl, lim) ==
    IF Len(cl) <= lim THEN cl
    ELSE LET top_level == cap_top_level(cl)
             sub_clauses == cap_sub_clauses(cl)
         IN  IF Len(top_level) >= lim THEN Prefix(top_level, lim)
             ELSE LET remaining == lim - Len(top_level)
                      kept_subs == Prefix(sub_clauses, remaining)
                  IN  cap_rebuild(cl, top_level, kept_subs)

\* ------------------------------------------------- clause lists for the cap
\* A clause as split_into_subclauses or the K2 validation leaves it: top-level
\* (no parentHeading), or a child whose parentHeading is the parent's heading,
\* which is "" when the parent's heading is "".
TopClause(i) == [id |-> <<i, 0>>, heading |-> <<"t">>, text |-> <<"x">>]

SubClause(i, ph, k) ==
    [id |-> <<i, 0>>, heading |-> <<"s">>, text |-> <<"x">>,
     parentHeading |-> ph, subClauseIndex |-> k]

CapParentHeadings == {<<>>, <<"P">>}

InitCap ==
    /\ contract_text = <<>>
    /\ clauses = <<>>
    /\ expanded = <<>>
    /\ capped = <<>>
    /\ limit = 0
    /\ used = 0
    /\ pc = "caplist"
    /\ doc = <<>>
    /\ ocr_words = <<>>
    /\ positions = <<>>
    /\ seed_rect = <<>>
    /\ para_rects = <<>>
    /\ k2_reply = <<>>
    /\ RunIdle

AddTopClause ==
    /\ pc = "caplist"
    /\ Len(expanded) < MaxCapClauses
    /\ expanded' = Append(expanded, TopClause(Len(expanded) + 1))
    /\ UNCHANGED <<contract_text, clauses, capped, limit, pc, used>>
    /\ UNCHANGED posvars
    /\ UNCHANGED latervars

AddSubClause ==
    /\ pc = "caplist"
    /\ Len(expanded) < MaxCapClauses
    /\ \E ph \in CapParentHeadings :
          expanded' = Append(expanded, SubClause(Len(expanded) + 1, ph, 0))
    /\ UNCHANGED <<contract_text, clauses, capped, limit, pc, used>>
    /\ UNCHANGED posvars
    /\ UNCHANGED latervars

CapClauses ==
    /\ pc \in {"caplist", "split"}
    /\ \E lim \in (0..MaxLimit) \cup {MAX_CLAUSES} :
          /\ limit' = lim
          /\ capped' = _cap_clauses(expanded, lim)
    /\ pc' = "capped"
    /\ UNCHANGED <<contract_text, clauses, expanded, used>>
    /\ UNCHANGED posvars
    /\ UNCHANGED latervars

NextCap == AddTopClause \/ AddSubClause \/ CapClauses

SpecCap == InitCap /\ [][NextCap]_vars

\* ---------------------------------------- split_into_subclauses on K2 clauses
\* extract_clauses_k2, short document: each entry of the K2 response is
\* validated into {heading[:100], text[:3000]}, then the list is split and capped
InitSplit ==
    /\ contract_text = <<>>
    /\ clauses = <<>>
    /\ expanded = <<>>
    /\ capped = <<>>
    /\ limit = 0
    /\ used = 0
    /\ pc = "k2"
    /\ doc = <<>>
    /\ ocr_words = <<>>
    /\ positions = <<>>
    /\ seed_rect = <<>>
    /\ para_rects = <<>>
    /\ k2_reply = <<>>
    /\ RunIdle

K2Clause ==
    /\ pc = "k2"
    /\ \E n \in 1..(MaxLines - used) : \E ps \in [1..n -> SplitPieces] :
       \E h \in 1..Len(SplitHeadings) :
          /\ clauses' = Append(clauses,
                               [id |-> <<Len(clauses) + 1, 0>>,
                                heading |-> Prefix(SplitHeadings[h], HEADING_CAP),
                                text |-> Prefix(Concat(ps), TEXT_CAP)])
          /\ used' = used + n
    /\ UNCHANGED <<contract_text, expanded, capped, limit, pc>>
    /\ UNCHANGED posvars
    /\ UNCHANGED latervars

SplitIntoSubclauses ==
    /\ pc \in {"k2", "extracted"}
    /\ expanded' = split_into_subclauses(clauses)
    /\ pc' = "split"
    /\ UNCHANGED <<contract_text, clauses, capped, limit, used>>
    /\ UNCHANGED posvars
    /\ UNCHANGED latervars

NextSplit == K2Clause \/ SplitIntoSubclauses \/ CapClauses

SpecSplit == InitSplit /\ [][NextSplit]_vars

\* ------------------------------------------------ the regex pipeline on a text
InitExtract ==
    /\ contract_text = <<>>
    /\ clauses = <<>>
    /\ expanded = <<>>
    /\ capped = <<>>
    /\ limit = 0
    /\ used = 0
    /\ pc = "text"
    /\ doc = <<>>
    /\ ocr_words = <<>>
    /\ positions = <<>>
    /\ seed_rect = <<>>
    /\ para_rects = <<>>
    /\ k2_reply = <<>>
    /\ RunIdle

AppendText ==
    /\ pc = "text"
    /\ used < MaxPieces
    /\ \E p \in ExtractPieces :
          /\ Len(contract_text) + Len(p) <= MaxTextLen
          /\ contract_text' = contract_text \o p
    /\ used' = used + 1
    /\ UNCHANGED <<clauses, expanded, capped, limit, pc>>
    /\ UNCHANGED posvars
    /\ UNCHANGED latervars

ExtractClauses ==
    /\ pc = "text"
    /\ clauses' = extract_clauses(contract_text)
    /\ pc' = "extracted"
    /\ UNCHANGED <<contract_text, expanded, capped, limit, used>>
    /\ UNCHANGED posvars
    /\ UNCHANGED latervars

NextExtract == AppendText \/ ExtractClauses \/ SplitIntoSubclauses \/ CapClauses

SpecExtract == InitExtract /\ [][NextExtract]_vars

\* ============================================================ position locators
\* ------------------------------------------------------- program constants
\* extract_clause_positions: for snippet_len in (80, 50, 30)
SNIPPET_LENS == <<80, 50, 30>>
\* extract_clause_positions: a snippet shorter than this is not searched
SNIPPET_MIN == 10
\* _expand_to_paragraph: clause_text.lower()[:500]
CLAUSE_WORDS_CAP == 500
\* _expand_to_paragraph: range(start_idx, min(start_idx + 30, len(all_lines)))
EXPAND_MAX_LINES == 30
\* _expand_to_paragraph: [a-zA-Z]{3,}
WORD_MIN == 3
\* the page size of the no-match position
DEFAULT_WIDTH == 612
DEFAULT_HEIGHT == 792
\* match_clauses_to_ocr_boxes: raw[:200]
OCR_TEXT_CAP == 200
\* match_clauses_to_ocr_boxes: fewer tokens than this give no match
MIN_TOKENS == 3
\* match_clauses_to_ocr_boxes: clause_words_lower[:8]
TARGET_LEN == 8
\* match_clauses_to_ocr_boxes: tw[:4]
PREFIX_LEN == 4
\* match_clauses_to_ocr_boxes: a best score below this gives no match
MIN_SCORE == 3
\* match_clauses_to_ocr_boxes: range(best_idx, min(best_idx + 40, len(ocr_words)))
OCR_RUN_MAX == 40
\* match_clauses_to_ocr_boxes: abs(curr_y - prev_y) < 8
LINE_GAP == 8

\* ------------------------------------------------------------ text helpers
UpperSeq == <<"A", "B", "C", "D", "E", "F", "G", "H", "I", "J", "K", "L", "M",
             "N", "O", "P", "Q", "R", "S", "T", "U", "V", "W", "X", "Y", "Z">>

LowerSeq == <<"a", "b", "c", "d", "e", "f", "g", "h", "i", "j", "k", "l", "m",
             "n", "o", "p", "q", "r", "s", "t", "u", "v", "w", "x", "y", "z">>

LowerChar(ch) ==
    IF ch \in Upper THEN LowerSeq[CHOOSE k \in 1..26 : UpperSeq[k] = ch] ELSE ch

\* str.lower()
ToLower(s) == [k \in 1..Len(s) |-> LowerChar(s[k])]

Abs(x) == IF x < 0 THEN -x ELSE x

\* re.findall of a greedy character-class pattern C+ : the maximal runs of
\* characters of class C from position p on, left to right
RECURSIVE RunsFrom(_, _, _)
RunsFrom(s, p, C) ==
    IF p > Len(s) THEN <<>>
    ELSE IF s[p] \notin C THEN RunsFrom(s, p + 1, C)
    ELSE LET e == RunEnd(s, p, C)
         IN  <<SubSeq(s, p, e - 1)>> \o RunsFrom(s, e, C)

\* set(re.findall(r"[a-zA-Z]{3,}", s)): a run of one or two letters matches
\* nowhere, a longer run is taken whole
letter_words(s) ==
    {w \in Range(RunsFrom(s, 1, Lower \cup Upper)) : Len(w) >= WORD_MIN}

\* str.split(): the maximal runs of non-whitespace characters
RECURSIVE SplitWs(_, _)
SplitWs(s, p) ==
    LET b == RunEnd(s, p, Space)
    IN  IF b > Len(s) THEN <<>>
        ELSE LET e == MinOf({q \in b..Len(s) : s[q] \in Space} \cup {Len(s) + 1})
             IN  <<SubSeq(s, b, e - 1)>> \o SplitWs(s, e)

\* sep.join(ws)
RECURSIVE Join(_, _)
Join(ws, sep) ==
    IF ws = <<>> THEN <<>>
    ELSE IF Len(ws) = 1 THEN ws[1]
    ELSE ws[1] \o sep \o Join(Tail(ws), sep)

\* " ".join(raw[:snippet_len].split())
snippet_of(raw, snippet_len) == Join(SplitWs(Prefix(raw, snippet_len), 1), <<" ">>)

\* str.startswith
StartsWith(w, pre) == Len(pre) <= Len(w) /\ SubSeq(w, 1, Len(pre)) = pre

\* the positions at which needle stands in hay
Occurrences(hay, needle) ==
    {p \in 1..(Len(hay) - Len(needle) + 1) :
        SubSeq(hay, p, p + Len(needle) - 1) = needle}

\* ---------------------------------------------------------------- a page
\* A page is [width, height, lines]: lines are the text lines of
\* page.get_text("dict") (blocks of type 0, flattened in reading order), each
\* [bbox |-> <<x0, y0, x1, y1>>, text].
RectOf(bbox) == [x0 |-> bbox[1], y0 |-> bbox[2], x1 |-> bbox[3], y1 |-> bbox[4]]

\* the text of the page as the search sees it: the lines in reading order, a
\* line break counting as one blank
page_text(page) ==
    Join([k \in 1..Len(page.lines) |-> page.lines[k].text], <<" ">>)

\* the line holding offset p of page_text, counted from line k
RECURSIVE LineOfOffset(_, _, _)
LineOfOffset(lines, k, p) ==
    IF k >= Len(lines) \/ p <= Len(lines[k].text) + 1 THEN k
    ELSE LineOfOffset(lines, k + 1, p - Len(lines[k].text) - 1)

\* the hits from position from on, leftmost first, without overlap
RECURSIVE HitRects(_, _, _, _)
HitRects(page, hits, width, from) ==
    LET later == {p \in hits : p >= from}
    IN  IF later = {} THEN <<>>
        ELSE LET p == MinOf(later)
             IN  <<RectOf(page.lines[LineOfOffset(page.lines, 1, p)].bbox)>>
                 \o HitRects(page, hits, width, p + width)

\* page.search_for(snippet): the rectangles of the hits in reading order; the
\* search ignores case, and takes a line break for a blank.  The rectangle of
\* a hit is given the box of the line in which the hit begins.
search_for(page, snippet) ==
    IF snippet = <<>> THEN <<>>
    ELSE HitRects(page, Occurrences(ToLower(page_text(page)), ToLower(snippet)),
                  Len(snippet), 1)

\* ---------------------------------------------------- _expand_to_paragraph
\* twice the vertical centre of a box, (y0 + y1) / 2 kept in integers
Centre2(y0, y1) == y0 + y1

\* the first line whose vertical centre is nearest to that of start_rect
start_line(all_lines, start_rect) ==
    LET dist(k) == Abs(Centre2(all_lines[k].bbox[2], all_lines[k].bbox[4])
                       - Centre2(start_rect.y0, start_rect.y1))
    IN  CHOOSE k \in 1..Len(all_lines) :
            \A j \in 1..Len(all_lines) :
                dist(k) <= dist(j) /\ (j < k => dist(j) > dist(k))

\* the loop over range(start_idx, min(start_idx + 30, len(all_lines))), from
\* line i on (lines are counted from 1 here)
\* the loop with continue in place of break: a line that fails is left out
\* and the walk goes on
RECURSIVE expand_lines_skipping(_, _, _, _)
expand_lines_skipping(all_lines, i, start_idx, clause_words) ==
    IF i > Min(start_idx + EXPAND_MAX_LINES - 1, Len(all_lines)) THEN <<>>
    ELSE LET line_words == letter_words(ToLower(all_lines[i].text))
             overlap == Cardinality(line_words \cap clause_words)
             rest == expand_lines_skipping(all_lines, i + 1, start_idx, clause_words)
         IN  IF \/ i = start_idx
                \/ overlap >= 2
                \/ (overlap >= 1 /\ Cardinality(line_words) <= 3)
             THEN <<RectOf(all_lines[i].bbox)>> \o rest
             ELSE rest

RECURSIVE expand_lines(_, _, _, _)
expand_lines(all_lines, i, start_idx, clause_words) ==
    IF i > Min(start_idx + EXPAND_MAX_LINES - 1, Len(all_lines)) THEN <<>>
    ELSE LET line_words == letter_words(ToLower(all_lines[i].text))
             overlap == Cardinality(line_words \cap clause_words)
         IN  IF \/ i = start_idx
                \/ overlap >= 2
                \/ (overlap >= 1 /\ Cardinality(line_words) <= 3)
             THEN <<RectOf(all_lines[i].bbox)>>
                  \o expand_lines(all_lines, i + 1, start_idx, clause_words)
             ELSE <<>>

_expand_to_paragraph(page, start_rect, clause_text) ==
    IF page.lines = <<>> THEN <<start_rect>>
    ELSE LET clause_words ==
                 letter_words(Prefix(ToLower(clause_text), CLAUSE_WORDS_CAP))
             start_idx == start_line(page.lines, start_rect)
             rects == expand_lines(page.lines, start_idx, start_idx, clause_words)
         IN  IF rects # <<>> THEN rects ELSE <<start_rect>>

\* ------------------------------------------------- extract_clause_positions
\* the no-match position with the page size left out
Sentinel_unsized ==
    [pageNumber |-> 0, rects |-> <<>>, pageWidth |-> 0, pageHeight |-> 0]

\* the position appended for a clause that was not found
Sentinel ==
    [pageNumber |-> 0, rects |-> <<>>,
     pageWidth |-> DEFAULT_WIDTH, pageHeight |-> DEFAULT_HEIGHT]

\* for page_num in range(len(doc)), from page k on (pages are counted from 1
\* here, pageNumber from 0): the position of the first page with a hit, as a
\* list of one, or the empty list
RECURSIVE search_pages(_, _, _, _)
search_pages(d, snippet, raw, k) ==
    IF k > Len(d) THEN <<>>
    ELSE LET rects == search_for(d[k], snippet)
         IN  IF rects # <<>>
             THEN <<[pageNumber |-> k - 1,
                     rects |-> _expand_to_paragraph(d[k], rects[1], raw),
                     pageWidth |-> d[k].width,
                     pageHeight |-> d[k].height]>>
             ELSE search_pages(d, snippet, raw, k + 1)

\* for snippet_len in (80, 50, 30), from the j-th length on
RECURSIVE try_snippets(_, _, _)
try_snippets(d, raw, j) ==
    IF j > Len(SNIPPET_LENS) THEN <<>>
    ELSE LET snippet == snippet_of(raw, SNIPPET_LENS[j])
             found == IF Len(snippet) < SNIPPET_MIN THEN <<>>
                      ELSE search_pages(d, snippet, raw, 1)
         IN  IF found # <<>> THEN found ELSE try_snippets(d, raw, j + 1)

\* the search with the loops exchanged: each page is tried with all snippet
\* lengths before the next page
RECURSIVE locate_pages_first(_, _, _)
locate_pages_first(d, raw, k) ==
    IF k > Len(d) THEN <<>>
    ELSE LET found == try_snippets(<<d[k]>>, raw, 1)
         IN  IF found # <<>>
             THEN <<[found[1] EXCEPT !.pageNumber = k - 1]>>
             ELSE locate_pages_first(d, raw, k + 1)

locate_clause_pages_first(d, clause) ==
    LET raw == Strip(clause.text)
        found == locate_pages_first(d, raw, 1)
    IN  IF found # <<>> THEN found ELSE <<Sentinel>>

\* the loop body that appends nothing for a clause that is not found
locate_clause_or_skip(d, clause) == try_snippets(d, Strip(clause.text), 1)

\* one iteration of the loop over clauses: what it appends to positions
locate_clause(d, clause) ==
    LET raw == Strip(clause.text)
        found == try_snippets(d, raw, 1)
    IN  IF found # <<>> THEN found ELSE <<Sentinel>>

RECURSIVE locate_from(_, _, _)
locate_from(d, cl, i) ==
    IF i > Len(cl) THEN <<>>
    ELSE locate_clause(d, cl[i]) \o locate_from(d, cl, i + 1)

extract_clause_positions(d, cl) == locate_from(d, cl, 1)

\* ----------------------------------------------- match_clauses_to_ocr_boxes
\* re.findall(r"[a-z0-9]+", raw[:200].lower())
ocr_tokens(raw) ==
    RunsFrom(ToLower(Prefix(raw, OCR_TEXT_CAP)), 1, Lower \cup Digits)

\* the score of the window at offset i (offsets are counted from 0, words
\* from 1): the target tokens j whose first 4 characters begin the lowercased
\* word i + j
window_score(words, target, i) ==
    Cardinality({j \in 1..Len(target) :
                    /\ i + j <= Len(words)
                    /\ StartsWith(ToLower(words[i + j].text),
                                  Prefix(target[j], PREFIX_LEN))})

\* for i in range(len(ocr_words) - len(target)), from offset i on:
\* <<best_idx, best_score>> when the loop ends
RECURSIVE best_window(_, _, _, _, _)
best_window(words, target, i, best_idx, best_score) ==
    IF i >= Len(words) - Len(target) THEN <<best_idx, best_score>>
    ELSE LET score == window_score(words, target, i)
         IN  IF score > best_score
             THEN best_window(words, target, i + 1, i, score)
             ELSE best_window(words, target, i + 1, best_idx, best_score)

\* for k in range(best_idx, min(best_idx + 40, len(ocr_words))), from word k
\* on (counted from 1), up to word stop, ending at the first word of another
\* page
\* the run with the page test inverted: it ends at the first word of the page
RECURSIVE same_page_run_other_page(_, _, _, _)
same_page_run_other_page(words, k, stop, page_num) ==
    IF k > stop \/ words[k].page = page_num THEN <<>>
    ELSE <<words[k]>> \o same_page_run_other_page(words, k + 1, stop, page_num)

RECURSIVE same_page_run(_, _, _, _)
same_page_run(words, k, stop, page_num) ==
    IF k > stop \/ words[k].page # page_num THEN <<>>
    ELSE <<words[k]>> \o same_page_run(words, k + 1, stop, page_num)

\* the loop over matched_words[1:], from word k on: the lines, the last one
\* being current_line with what is appended to it
RECURSIVE group_lines(_, _, _)
group_lines(matched_words, k, current_line) ==
    IF k > Len(matched_words) THEN <<current_line>>
    ELSE LET w == matched_words[k]
             prev == current_line[Len(current_line)]
         IN  IF Abs(Centre2(w.y0, w.y1) - Centre2(prev.y0, prev.y1)) < 2 * LINE_GAP
             THEN group_lines(matched_words, k + 1, Append(current_line, w))
             ELSE <<current_line>> \o group_lines(matched_words, k + 1, <<w>>)

\* the greatest member of a non-empty set of integers
MaxOf(S) == CHOOSE x \in S : \A y \in S : x >= y

\* the box of the first word of a line in place of the union
line_rect_first_word(line_words) ==
    [x0 |-> line_words[1].x0, y0 |-> line_words[1].y0,
     x1 |-> line_words[1].x1, y1 |-> line_words[1].y1]

\* the union of the boxes of the words of a line
line_rect(line_words) ==
    [x0 |-> MinOf({w.x0 : w \in Range(line_words)}),
     y0 |-> MinOf({w.y0 : w \in Range(line_words)}),
     x1 |-> MaxOf({w.x1 : w \in Range(line_words)}),
     y1 |-> MaxOf({w.y1 : w \in Range(line_words)})]

\* page_dims: the size of every page of the document, by page number
page_dims(d) ==
    [i \in 0..(Len(d) - 1) |-> [width |-> d[i + 1].width, height |-> d[i + 1].height]]

\* page_dims.get(page_num, {"width": 612, "height": 792})
dims_of(dims, page_num) ==
    IF page_num \in DOMAIN dims THEN dims[page_num]
    ELSE [width |-> DEFAULT_WIDTH, height |-> DEFAULT_HEIGHT]

\* one iteration of the loop over clauses: what it appends to positions
match_clause(clause, words, dims) ==
    LET raw == Strip(clause.text)
        clause_words_lower == ocr_tokens(raw)
    IN  IF Len(clause_words_lower) < MIN_TOKENS THEN <<Sentinel>>
        ELSE
        LET target == Prefix(clause_words_lower, TARGET_LEN)
            best == best_window(words, target, 0, -1, 0)
            best_idx == best[1]
            best_score == best[2]
        IN  IF best_score < MIN_SCORE \/ best_idx < 0 THEN <<Sentinel>>
            ELSE
            LET page_num == words[best_idx + 1].page
                matched_words ==
                    same_page_run(words, best_idx + 1,
                                  Min(best_idx + OCR_RUN_MAX, Len(words)), page_num)
                size == dims_of(dims, page_num)
            IN  IF matched_words = <<>>
                THEN <<[pageNumber |-> page_num, rects |-> <<>>,
                        pageWidth |-> size.width, pageHeight |-> size.height]>>
                ELSE
                LET lines == group_lines(matched_words, 2, <<matched_words[1]>>)
                IN  <<[pageNumber |-> page_num,
                       rects |-> [k \in 1..Len(lines) |-> line_rect(lines[k])],
                       pageWidth |-> size.width,
                       pageHeight |-> size.height]>>

RECURSIVE match_from(_, _, _, _)
match_from(cl, words, dims, i) ==
    IF i > Len(cl) THEN <<>>
    ELSE match_clause(cl[i], words, dims) \o match_from(cl, words, dims, i + 1)

match_clauses_to_ocr_boxes(cl, words, d) == match_from(cl, words, page_dims(d), 1)

\* ------------------------------------------- inputs of the position locators
\* a clause of 89 characters on two lines
TLong == Conf \o NlRem

\* a clause of 51 characters and 10 tokens
TParty ==
    <<"P", "a", "r", "t", "y", " ", "s", "h", "a", "l", "l", " ", "n", "o",
     "t", " ", "d", "i", "s", "c", "l", "o", "s", "e", " ", "t", "h", "e",
     " ", "f", "e", "e", "s", " ", "d", "u", "e", " ", "n", "o", "w", " ",
     "o", "r", " ", "l", "a", "t", "e", "r", ".">>

\* a clause of 13 characters and 3 tokens
TFees ==
    <<"F", "e", "e", "s", " ", "d", "u", "e", " ", "n", "o", "w", ".">>

\* a clause of 8 characters and 2 tokens
TShort ==
    <<"F", "e", "e", "s", " ", "d", "u", "e">>

\* the clauses of a document in document order; the list handed to a locator
\* holds some of them in that order
PosTexts == <<TShort, TLong, TParty, TFees>>

\* may the k-th text follow the clauses of cl
FollowsAll(cl, k) ==
    \A i \in 1..Len(cl) : \A j \in 1..Len(PosTexts) : PosTexts[j] = cl[i].text => j < k

\* the text lines of a page, set 14 units apart
MkLines(texts) ==
    [k \in 1..Len(texts) |->
        [bbox |-> <<72, 72 + 14 * (k - 1), 540, 84 + 14 * (k - 1)>>,
         text |-> texts[k]]]

\* a page carrying the whole of TLong
PageFull ==
    [width |-> 612, height |-> 792, lines |-> MkLines(<<Conf, Tail(NlRem)>>)]

\* a page carrying the first 50 characters of TLong and no more of it
Page50 ==
    [width |-> 595, height |-> 842,
     lines |-> MkLines(<<Conf,
        <<"3", ".", "2", " ", "F", "e", "e", "s", " ", "a", "n", "d", " ",
         "c", "o", "s", "t", "s", ".">>>>)]

\* a page carrying the first 30 characters of TLong and no more of it
Page30 ==
    [width |-> 612, height |-> 792,
     lines |-> MkLines(<<
        <<"3", ".", "1", " ", "C", "o", "n", "f", "i", "d", "e", "n", "t",
         "i", "a", "l", "i", "t", "y", ".", " ", "P", "a", "r", "t", "y",
         " ", "s", "h", "a", "l", "l", " ", "p", "a", "y", ".">>>>)]

\* a page carrying TParty on two lines, then TFees
PageParty ==
    [width |-> 612, height |-> 792,
     lines |-> MkLines(<<
        <<"P", "a", "r", "t", "y", " ", "s", "h", "a", "l", "l", " ", "n",
         "o", "t", " ", "d", "i", "s", "c", "l", "o", "s", "e", " ", "t",
         "h", "e", " ", "f", "e", "e", "s">>,
        <<"d", "u", "e", " ", "n", "o", "w", " ", "o", "r", " ", "l", "a",
         "t", "e", "r", ".">>,
        TFees>>)]

\* a page without text lines (a scanned page)
ScanPage == [width |-> 595, height |-> 842, lines |-> <<>>]

PosPages == {PageFull, Page50, Page30, PageParty, ScanPage}

\* runs of OCR words; place says where the first word of the run goes: after
\* the previous word on its line, on a new line, or on a new page
OcrFeesDueNow ==
    [words |-> <<<<"F", "e", "e", "s">>, <<"d", "u", "e">>, <<"n", "o", "w", ".">>>>,
     place |-> "line", height |-> 12]

OcrFeesDue ==
    [words |-> <<<<"F", "e", "e", "s">>, <<"d", "u", "e">>>>,
     place |-> "same", height |-> 12]

OcrFees ==
    [words |-> <<<<"F", "e", "e", "s">>>>, place |-> "same", height |-> 12]

OcrParty ==
    [words |-> <<<<"P", "a", "r", "t", "y">>,
                 <<"s", "h", "a", "l", "l">>,
                 <<"n", "o", "t">>,
                 <<"d", "i", "s", "c", "l", "o", "s", "e">>,
                 <<"t", "h", "e">>,
                 <<"f", "e", "e", "s">>,
                 <<"d", "u", "e">>,
                 <<"n", "o", "w">>>>,
     place |-> "line", height |-> 12]

OcrNextPage ==
    [words |-> <<<<"F", "e", "e", "s">>, <<"d", "u", "e">>, <<"n", "o", "w", ".">>>>,
     place |-> "page", height |-> 12]

\* a line whose first word has a box 26 high (a drop capital, a word read
\* together with a rule or a bracket)
OcrTallFees ==
    [words |-> <<<<"F", "e", "e", "s">>, <<"d", "u", "e">>, <<"n", "o", "w", ".">>>>,
     place |-> "line", height |-> 26]

\* a long line of words that stand in no clause
OcrFiller ==
    [words |-> [k \in 1..FillerLen |-> <<"m", "o", "r", "e">>],
     place |-> "line", height |-> 12]

OcrPieces ==
    {OcrFeesDueNow, OcrFeesDue, OcrFees, OcrParty, OcrNextPage, OcrTallFees,
     OcrFiller}

\* does the run open a new page of the word list
OpensPage(words, piece) == words = <<>> \/ piece.place = "page"

\* the word list with the run appended: words are 40 wide and 12 high (the
\* first word of the run as high as the run says), 10 apart on a line, lines
\* 14 apart, the first word of a page at (72, 72)
OcrAppend(words, piece) ==
    LET last == words[Len(words)]
        page == IF words = <<>> THEN 0
                ELSE IF piece.place = "page" THEN last.page + 1 ELSE last.page
        x == IF OpensPage(words, piece) \/ piece.place = "line" THEN 72
             ELSE last.x1 + 10
        y == IF OpensPage(words, piece) THEN 72
             ELSE IF piece.place = "line" THEN last.y0 + 14 ELSE last.y0
    IN  words \o [k \in 1..Len(piece.words) |->
                    [text |-> piece.words[k],
                     x0 |-> x + 50 * (k - 1), y0 |-> y,
                     x1 |-> x + 50 * (k - 1) + 40,
                     y1 |-> y + (IF k = 1 THEN piece.height ELSE 12),
                     page |-> page]]

\* ------------------------------------------------------ locating the clauses
\* run_contract_analysis hands the clause list to one of the two locators:
\* extract_clause_positions for a PDF read directly, match_clauses_to_ocr_boxes
\* for a PDF read by OCR, whose word list comes from the pages of the same PDF.
InitPositions ==
    /\ contract_text = <<>>
    /\ clauses = <<>>
    /\ expanded = <<>>
    /\ capped = <<>>
    /\ limit = 0
    /\ used = 0
    /\ doc = <<>>
    /\ ocr_words = <<>>
    /\ positions = <<>>
    /\ seed_rect = <<>>
    /\ para_rects = <<>>
    /\ k2_reply = <<>>
    /\ RunIdle
    /\ pc \in {"digital", "scanned"}

AddPosClause ==
    /\ pc \in {"digital", "scanned"}
    /\ Len(clauses) < MaxPosClauses
    /\ \E k \in 1..Len(PosTexts) :
          /\ FollowsAll(clauses, k)
          /\ clauses' = Append(clauses,
                               [id |-> <<Len(clauses) + 1, 0>>,
                                heading |-> Prefix(FirstLine(PosTexts[k]), HEADING_CAP),
                                text |-> PosTexts[k]])
    /\ UNCHANGED <<contract_text, expanded, capped, limit, pc, used>>
    /\ UNCHANGED posvars
    /\ UNCHANGED latervars

AddPage ==
    /\ pc = "digital"
    /\ Len(doc) < MaxPages
    /\ \E page \in PosPages : doc' = Append(doc, page)
    /\ UNCHANGED <<contract_text, clauses, expanded, capped, limit, pc, used>>
    /\ UNCHANGED <<ocr_words, positions>>
    /\ UNCHANGED latervars

AddOcrWords ==
    /\ pc = "scanned"
    /\ used < MaxOcrPieces
    /\ \E piece \in OcrPieces :
          /\ OpensPage(ocr_words, piece) => Len(doc) < MaxPages
          /\ ocr_words' = OcrAppend(ocr_words, piece)
          /\ doc' = IF OpensPage(ocr_words, piece) THEN Append(doc, ScanPage) ELSE doc
    /\ used' = used + 1
    /\ UNCHANGED <<contract_text, clauses, expanded, capped, limit, pc, positions>>
    /\ UNCHANGED latervars

ExtractClausePositions ==
    /\ pc = "digital"
    /\ positions' = extract_clause_positions(doc, clauses)
    /\ pc' = "located"
    /\ UNCHANGED <<contract_text, clauses, expanded, capped, limit, used>>
    /\ UNCHANGED <<doc, ocr_words>>
    /\ UNCHANGED latervars

MatchClausesToOcrBoxes ==
    /\ pc = "scanned"
    /\ positions' = match_clauses_to_ocr_boxes(clauses, ocr_words, doc)
    /\ pc' = "matched"
    /\ UNCHANGED <<contract_text, clauses, expanded, capped, limit, used>>
    /\ UNCHANGED <<doc, ocr_words>>
    /\ UNCHANGED latervars

NextPositions ==
    \/ AddPosClause
    \/ AddPage
    \/ AddOcrWords
    \/ ExtractClausePositions
    \/ MatchClausesToOcrBoxes

SpecPositions == InitPositions /\ [][NextPositions]_vars

\* ------------------------------------------- inputs of _expand_to_paragraph
\* lines appended to the page in one step, at most
BlockLen == 30
\* steps that append lines to the page
MaxBlocks == 3

\* the clause whose paragraph is expanded: its candidate words are party,
\* shall, not, disclose, the, fees, due, now, later
ExpandClause == TParty

\* a line sharing 3 candidate words with the clause
LineTwoShared ==
    <<"s", "h", "a", "l", "l", " ", "n", "o", "t", " ", "d", "i", "s",
     "c", "l", "o", "s", "e">>

\* a line of 2 words sharing 1 with the clause
LineOneSharedShort ==
    <<"f", "e", "e", "s", " ", "p", "a", "i", "d">>

\* a line of 5 words sharing 1 with the clause
LineOneSharedLong ==
    <<"f", "e", "e", "s", " ", "a", "r", "e", " ", "p", "a", "i", "d", " ",
      "m", "o", "n", "t", "h", "l", "y", " ", "h", "e", "r", "e">>

\* a line sharing no word with the clause
LineNoneShared ==
    <<"G", "o", "v", "e", "r", "n", "i", "n", "g", " ", "l", "a", "w">>

ExpandLineTexts ==
    {LineTwoShared, LineOneSharedShort, LineOneSharedLong, LineNoneShared}

\* the page with n more lines of the given text
WithLines(page, text, n) ==
    [page EXCEPT !.lines =
        MkLines([k \in 1..(Len(page.lines) + n) |->
                    IF k <= Len(page.lines) THEN page.lines[k].text ELSE text])]

\* the rectangles a search hit on the page may have: in line k (d = 0) or
\* midway between line k and the next (d = 7), for the first two lines and
\* the last; any rectangle on a page without lines
Seeds(page) ==
    LET n == Len(page.lines)
        ks == IF n = 0 THEN {1} ELSE {1, 2, n} \cap (1..n)
    IN  {[x0 |-> 72, y0 |-> 72 + 14 * (k - 1) + d,
          x1 |-> 200, y1 |-> 84 + 14 * (k - 1) + d] : k \in ks, d \in {0, 7}}

\* ------------------------------------------------- expanding one paragraph
\* _expand_to_paragraph as extract_clause_positions calls it: a page, the first
\* hit rectangle on it, the text of the clause
InitExpand ==
    /\ contract_text = <<>>
    /\ clauses = <<[id |-> <<1, 0>>,
                    heading |-> Prefix(FirstLine(ExpandClause), HEADING_CAP),
                    text |-> ExpandClause]>>
    /\ expanded = <<>>
    /\ capped = <<>>
    /\ limit = 0
    /\ used = 0
    /\ doc = <<[width |-> 612, height |-> 792, lines |-> <<>>]>>
    /\ ocr_words = <<>>
    /\ positions = <<>>
    /\ seed_rect = <<>>
    /\ para_rects = <<>>
    /\ k2_reply = <<>>
    /\ RunIdle
    /\ pc = "page"

\* a page begins with a single line or a block of lines of one text and goes
\* on line by line
AddLines ==
    /\ pc = "page"
    /\ used < MaxBlocks
    /\ \E text \in ExpandLineTexts :
          \E n \in IF used = 0 THEN {1, BlockLen} ELSE {1} :
             doc' = <<WithLines(doc[1], text, n)>>
    /\ used' = used + 1
    /\ UNCHANGED <<contract_text, clauses, expanded, capped, limit, pc>>
    /\ UNCHANGED <<ocr_words, positions, seed_rect, para_rects>>
    /\ UNCHANGED k2vars
    /\ UNCHANGED runvars

ExpandToParagraph ==
    /\ pc = "page"
    /\ \E seed \in Seeds(doc[1]) :
          /\ seed_rect' = seed
          /\ para_rects' = _expand_to_paragraph(doc[1], seed, Strip(clauses[1].text))
    /\ pc' = "expanded"
    /\ UNCHANGED <<contract_text, clauses, expanded, capped, limit, used>>
    /\ UNCHANGED posvars
    /\ UNCHANGED k2vars
    /\ UNCHANGED runvars

NextExpand == AddLines \/ ExpandToParagraph

SpecExpand == InitExpand /\ [][NextExpand]_vars

\* ------------------------------------------------------ extract_clauses_k2
\* The reply of the K2 call is a record: kind "error" for any exception in the
\* try block (the call, json.loads, a slice of a non-string), "list" with the
\* entries of a JSON array, "keep" with the index set of a JSON object,
\* "nokeep" for a JSON object without the key keep.  An entry is a record with
\* the keys of the JSON object; anything without a text is not validated.
RECURSIVE validate_from(_, _, _)
validate_from(entries, i, n) ==
    IF i > Len(entries) THEN <<>>
    ELSE LET c == entries[i]
         IN  IF "text" \in DOMAIN c
             THEN <<[id |-> <<n + 1, 0>>,
                     heading |-> Prefix(IF "heading" \in DOMAIN c THEN c.heading
                                        ELSE <<"C", "l", "a", "u", "s", "e">>,
                                        HEADING_CAP),
                     text |-> Prefix(c.text, TEXT_CAP)]>>
                  \o validate_from(entries, i + 1, n + 1)
             ELSE validate_from(entries, i + 1, n)

\* the list the short-document path hands to _cap_clauses
k2_single_pass_list(text, reply) ==
    LET validated == IF reply.kind = "list" THEN validate_from(reply.entries, 1, 0)
                     ELSE <<>>
    IN  IF validated # <<>> THEN split_into_subclauses(validated)
        ELSE split_into_subclauses(extract_clauses(text))

\* [expanded[i] for i in range(len(expanded)) if i in keep_indices], from
\* index i on (counted from 0)
RECURSIVE keep_from(_, _, _)
keep_from(exp, keep_indices, i) ==
    IF i >= Len(exp) THEN <<>>
    ELSE (IF i \in keep_indices THEN <<exp[i + 1]>> ELSE <<>>)
         \o keep_from(exp, keep_indices, i + 1)

\* the large-document path returning the filtered list as it is
k2_filtered_uncapped(exp, reply) ==
    LET keep_indices == IF reply.kind = "keep" THEN reply.keep
                        ELSE 0..(Len(exp) - 1)
        filtered == IF reply.kind \in {"keep", "nokeep"}
                    THEN keep_from(exp, keep_indices, 0) ELSE <<>>
    IN  IF filtered # <<>> THEN filtered
        ELSE _cap_clauses(exp, MAX_CLAUSES)

\* steps D and the returns of the large-document path, exp being the list of
\* steps A and B
k2_filtered(exp, reply) ==
    LET keep_indices == IF reply.kind = "keep" THEN reply.keep
                        ELSE 0..(Len(exp) - 1)
        filtered == IF reply.kind \in {"keep", "nokeep"}
                    THEN keep_from(exp, keep_indices, 0) ELSE <<>>
    IN  IF filtered # <<>> THEN _cap_clauses(filtered, MAX_CLAUSES)
        ELSE _cap_clauses(exp, MAX_CLAUSES)

extract_clauses_k2(text, reply) ==
    IF Len(text) <= K2_SINGLE_PASS_MAX
    THEN _cap_clauses(k2_single_pass_list(text, reply), MAX_CLAUSES)
    ELSE k2_filtered(split_into_subclauses(extract_clauses(text)), reply)

\* ---------------------------------------------- inputs of extract_clauses_k2
RECURSIVE Repeat(_, _)
Repeat(s, n) == IF n = 0 THEN <<>> ELSE s \o Repeat(s, n - 1)

\* a section of 100 characters
NlSection ==
    NlRem \o
    <<" ", "T", "h", "e", " ", "p", "a", "r", "t", "y", " ", "i",
      "n", " ", "b", "r", "e", "a", "c", "h", " ", "s", "h", "a",
      "l", "l", " ", "b", "e", "a", "r", " ", "a", "l", "l", " ",
      "c", "o", "s", "t", "s", " ", "o", "f", " ", "e", "n", "f",
      "o", "r", "c", "e", "m", "e", "n", "t", ".">>

\* what one step appends to the text: a section, a block of sections, a
\* lettered line, a line without marker
K2TextPieces == {NlSection, Repeat(NlSection, SectionBlock), NlLetA, Pre31}

\* entries of a K2 clause list: a clause without sub-clauses, a clause with
\* two sub-clauses, a clause without heading, an entry without text
K2Top == [heading |-> <<"1", ".", " ", "T">>, text |-> Conf]

K2Parent == [heading |-> <<"3", ".", " ", "C">>, text |-> Conf \o NlRem]

K2NoHeading == [text |-> Conf]

K2Junk == [heading |-> <<"x">>]

K2Lists ==
    {<<>>, <<K2Top>>, <<K2Junk>>, <<K2Junk, K2NoHeading>>,
     [k \in 1..K2ListLen |-> K2Top],
     [k \in 1..K2ListLen |-> K2Parent],
     [k \in 1..K2ListLen |-> IF k % 2 = 1 THEN K2Top ELSE K2Parent]}

\* the index sets a filter reply may keep for a list of n entries: none, all,
\* all but the first, every second one, the first two, one out of range
K2Keeps(n) ==
    {{}, 0..(n - 1), 1..(n - 1), {i \in 0..(n - 1) : i % 2 = 0}, {0, 1},
     {n + 5}}

\* the replies the K2 call may give for the text
K2Replies(text) ==
    IF Len(text) <= K2_SINGLE_PASS_MAX
    THEN {[kind |-> "error"]} \cup {[kind |-> "list", entries |-> l] : l \in K2Lists}
    ELSE {[kind |-> "error"], [kind |-> "nokeep"]}
         \cup {[kind |-> "keep", keep |-> k] :
                  k \in K2Keeps(Len(split_into_subclauses(extract_clauses(text))))}

\* ------------------------------------------- extracting the clauses with K2
InitK2 ==
    /\ contract_text = <<>>
    /\ clauses = <<>>
    /\ expanded = <<>>
    /\ capped = <<>>
    /\ limit = 0
    /\ used = 0
    /\ doc = <<>>
    /\ ocr_words = <<>>
    /\ positions = <<>>
    /\ seed_rect = <<>>
    /\ para_rects = <<>>
    /\ k2_reply = <<>>
    /\ RunIdle
    /\ pc = "k2text"

AppendSections ==
    /\ pc = "k2text"
    /\ used < MaxSectionBlocks
    /\ \E p \in K2TextPieces : contract_text' = contract_text \o p
    /\ used' = used + 1
    /\ UNCHANGED <<clauses, expanded, capped, limit, pc>>
    /\ UNCHANGED posvars
    /\ UNCHANGED latervars

\* extract_clauses_k2: expanded is the list before the filter and the cap
ExtractClausesK2 ==
    /\ pc = "k2text"
    /\ \E reply \in K2Replies(contract_text) :
          /\ k2_reply' = reply
          /\ expanded' = IF Len(contract_text) <= K2_SINGLE_PASS_MAX
                         THEN k2_single_pass_list(contract_text, reply)
                         ELSE split_into_subclauses(extract_clauses(contract_text))
          /\ capped' = extract_clauses_k2(contract_text, reply)
    /\ limit' = MAX_CLAUSES
    /\ pc' = "k2done"
    /\ UNCHANGED <<contract_text, clauses, used>>
    /\ UNCHANGED posvars
    /\ UNCHANGED expvars
    /\ UNCHANGED runvars

NextK2 == AppendSections \/ ExtractClausesK2

SpecK2 == InitK2 /\ [][NextK2]_vars

\* ============================================== concurrent clause analysis
\* CLAUSE_CONCURRENCY
CLAUSE_CONCURRENCY == 6

\* most clauses of a run whose clause tasks are followed step by step
MaxTasks == 7

\* clause.get(key): the value as a list of one, or the empty list for None
OptGet(c, key) == IF key \in DOMAIN c THEN <<c[key]>> ELSE <<>>

DigitChars == <<"1", "2", "3", "4", "5", "6", "7", "8", "9">>

\* clause i of the list extract_clauses_k2 returned: clauses with an even
\* index are children of a lettered split, the others are top-level
RunClause(i) ==
    IF i % 2 = 0
    THEN [id |-> <<i, 1>>, heading |-> <<"(", "a", ")">>,
          text |-> Conf \o <<" ", DigitChars[i]>>,
          parentHeading |-> <<"3", ".", " ", "C">>, subClauseIndex |-> i]
    ELSE [id |-> <<i, 0>>, heading |-> <<"1", ".", " ", "T">>,
          text |-> Conf \o <<" ", DigitChars[i]>>]

RunClauses(n) == [i \in 1..n |-> RunClause(i)]

\* the position a locator found for clause i
RunPosition(i) ==
    [pageNumber |-> i % 2,
     rects |-> <<[x0 |-> 72, y0 |-> 72 + 14 * i, x1 |-> 300, y1 |-> 84 + 14 * i]>>,
     pageWidth |-> DEFAULT_WIDTH, pageHeight |-> DEFAULT_HEIGHT]

\* clause_positions: one position per clause, or the empty list when there
\* are no PDF bytes or the locator raised (agent.py:338-348)
RunPositions(n) == {<<>>, [i \in 1..n |-> RunPosition(i)]}

\* the dict analyze_clause_risk returns when K2 answered: the risk level and
\* category are normalised to valid strings, the explanation is whatever
\* truthy value the JSON held ("ok": a string, "odd": a number)
K2Answer(kind) ==
    [riskLevel |-> "high", riskCategory |-> "financial",
     explanation |-> IF kind = "ok"
                     THEN [type |-> "str", value |-> <<"R", "i", "s", "k", "y">>]
                     ELSE [type |-> "int", value |-> 5]]

\* the dict _analyze_one_clause builds when the K2 call raised
K2Default(heading) ==
    [riskLevel |-> "medium", riskCategory |-> "operational",
     explanation |-> [type |-> "str",
                      value |-> <<"A", "n", "a", "l", "y", "s", "i", "s", " ",
                                  "t", "i", "m", "e", "d", " ", "o", "u", "t",
                                  " ", "f", "o", "r", ":", " ">> \o heading]]

\* the dict _analyze_one_clause returns (concern, suggestion and k2Reasoning
\* are carried over from k2_result exactly like explanation)
analysis_result(clause, k2_result) ==
    [clauseText |-> Prefix(clause.text, 2000),
     clauseType |-> clause.heading,
     riskLevel |-> k2_result.riskLevel,
     riskCategory |-> k2_result.riskCategory,
     explanation |-> k2_result.explanation,
     parentHeading |-> OptGet(clause, "parentHeading"),
     subClauseIndex |-> OptGet(clause, "subClauseIndex")]

\* if position: the four position fields are written into the result
merge_position(result, position) ==
    IF position = <<>> THEN result
    ELSE [pageNumber |-> position[1].pageNumber,
          rects |-> <<"json", position[1].rects>>,
          pageWidth |-> position[1].pageWidth,
          pageHeight |-> position[1].pageHeight] @@ result

\* the position looked up one place further on
position_for_next(clause_positions, i) ==
    IF i + 1 <= Len(clause_positions) THEN <<clause_positions[i + 1]>> ELSE <<>>

\* clause_positions[i] if i < len(clause_positions) else None, as a list of
\* one or the empty list (i counts from 1 here)
position_for(clause_positions, i) ==
    IF i <= Len(clause_positions) THEN <<clause_positions[i]>> ELSE <<>>

\* the clause tasks that hold a slot of the semaphore
InProgress == {i \in 1..Len(task_pc) : task_pc[i] \in {"rag", "k2"}}

\* how the services answer for n clauses: nothing fails; single failures
\* (RAG for clause 1, an odd K2 answer for clause 1, K2 for clause 2, the
\* clause save for clause 2); everything fails
TaskEnvs(n) ==
    {[rag_fails |-> {}, k2 |-> [i \in 1..n |-> "ok"], save_fails |-> {}],
     [rag_fails |-> {1},
      k2 |-> [i \in 1..n |-> IF i = 1 THEN "odd" ELSE IF i = 2 THEN "fail" ELSE "ok"],
      save_fails |-> {2}],
     [rag_fails |-> 1..n, k2 |-> [i \in 1..n |-> "fail"], save_fails |-> 1..n]}

\* sem = asyncio.Semaphore(CLAUSE_CONCURRENCY); counter = {"completed": 0};
\* asyncio.gather has created one task per clause
StartTasks(n) ==
    /\ task_pc = [i \in 1..n |-> "waiting"]
    /\ rag_context = [i \in 1..n |-> ""]
    /\ task_result = [i \in 1..n |-> <<>>]
    /\ sem = CLAUSE_CONCURRENCY
    /\ counter = 0
    /\ sent = <<>>
    /\ saved_clauses = {}

InitPhase2 ==
    /\ contract_text = <<>>
    /\ expanded = <<>>
    /\ capped = <<>>
    /\ limit = 0
    /\ used = 0
    /\ doc = <<>>
    /\ ocr_words = <<>>
    /\ seed_rect = <<>>
    /\ para_rects = <<>>
    /\ k2_reply = <<>>
    /\ pc = "run"
    /\ \E n \in 0..MaxTasks :
          /\ clauses = RunClauses(n)
          /\ positions \in RunPositions(n)
          /\ env \in TaskEnvs(n)
          /\ StartTasks(n)
    /\ run_pc = "phase2"
    /\ clause_results = <<>>
    /\ summary_log = <<>>
    /\ summary_data = <<>>
    /\ review = [status |-> "processing", results |-> <<>>]

\* async with sem without the wait for a free slot
Acquire_unthrottled(i) ==
    /\ run_pc = "phase2"
    /\ task_pc[i] = "waiting"
    /\ \A j \in 1..(i - 1) : task_pc[j] # "waiting"
    /\ sem' = sem - 1
    /\ task_pc' = [task_pc EXCEPT ![i] = "rag"]
    /\ UNCHANGED <<rag_context, task_result, counter, sent, saved_clauses>>
    /\ UNCHANGED <<run_pc, env, clause_results, summary_log, summary_data, review>>
    /\ UNCHANGED <<contract_text, clauses, expanded, capped, limit, pc, used>>
    /\ UNCHANGED <<posvars, expvars, k2vars>>

\* async with sem: a waiting task takes a slot and starts the RAG lookup.
\* The event loop starts the tasks in the order asyncio.gather got them and
\* asyncio.Semaphore wakes its waiters first-in first-out, so the waiting
\* task with the lowest index is the next to take a slot.
Acquire(i) ==
    /\ run_pc = "phase2"
    /\ task_pc[i] = "waiting"
    /\ \A j \in 1..(i - 1) : task_pc[j] # "waiting"
    /\ sem > 0
    /\ sem' = sem - 1
    /\ task_pc' = [task_pc EXCEPT ![i] = "rag"]
    /\ UNCHANGED <<rag_context, task_result, counter, sent, saved_clauses>>
    /\ UNCHANGED <<run_pc, env, clause_results, summary_log, summary_data, review>>
    /\ UNCHANGED <<contract_text, clauses, expanded, capped, limit, pc, used>>
    /\ UNCHANGED <<posvars, expvars, k2vars>>

\* query_legal_knowledge returned or raised; the K2 call starts
RagReturns(i) ==
    /\ run_pc = "phase2"
    /\ task_pc[i] = "rag"
    /\ rag_context' = [rag_context EXCEPT
                          ![i] = IF i \in env.rag_fails
                                 THEN "RAG unavailable" ELSE "context"]
    /\ task_pc' = [task_pc EXCEPT ![i] = "k2"]
    /\ UNCHANGED <<task_result, sem, counter, sent, saved_clauses>>
    /\ UNCHANGED <<run_pc, env, clause_results, summary_log, summary_data, review>>
    /\ UNCHANGED <<contract_text, clauses, expanded, capped, limit, pc, used>>
    /\ UNCHANGED <<posvars, expvars, k2vars>>

\* the value the task of clause i returns once the K2 call is over
task_return(i) ==
    LET k2_result == IF env.k2[i] = "fail"
                     THEN K2Default(clauses[i].heading)
                     ELSE K2Answer(env.k2[i])
    IN  merge_position(analysis_result(clauses[i], k2_result),
                       position_for(positions, i))

\* the progress value taken before the task has counted itself
counted_before == counter

\* counter["completed"] after the task that finishes now has counted itself
counted == counter + 1

\* analyze_clause_risk returned or raised: the task leaves the semaphore
\* block, merges the position, saves the clause, counts itself, reports the
\* progress and returns, all without giving up control
K2Returns(i) ==
    /\ run_pc = "phase2"
    /\ task_pc[i] = "k2"
    /\ sem' = sem + 1
    /\ task_result' = [task_result EXCEPT ![i] = <<task_return(i)>>]
    /\ saved_clauses' = IF i \in env.save_fails THEN saved_clauses
                        ELSE saved_clauses \cup {i}
    /\ counter' = counted
    /\ sent' = Append(sent, counted)
    /\ rag_context' = [rag_context EXCEPT ![i] = ""]
    /\ task_pc' = [task_pc EXCEPT ![i] = "done"]
    /\ UNCHANGED <<run_pc, env, clause_results, summary_log, summary_data, review>>
    /\ UNCHANGED <<contract_text, clauses, expanded, capped, limit, pc, used>>
    /\ UNCHANGED <<posvars, expvars, k2vars>>

\* asyncio.gather returns the results in the order of its arguments once
\* every task has returned
Gather ==
    /\ run_pc = "phase2"
    /\ \A i \in 1..Len(task_pc) : task_pc[i] = "done"
    /\ clause_results' = [i \in 1..Len(task_result) |-> task_result[i][1]]
    /\ run_pc' = "gathered"
    /\ UNCHANGED <<env, taskvars, summary_log, summary_data, review>>
    /\ UNCHANGED <<contract_text, clauses, expanded, capped, limit, pc, used>>
    /\ UNCHANGED <<posvars, expvars, k2vars>>

TaskStep(i) == Acquire(i) \/ RagReturns(i) \/ K2Returns(i)

NextPhase2 == (\E i \in 1..Len(task_pc) : TaskStep(i)) \/ Gather

SpecPhase2 == InitPhase2 /\ [][NextPhase2]_vars

\* the event loop does not stop while a task can run, and every RAG and K2
\* call returns or raises (both clients have request timeouts)
FairPhase2 == WF_vars(NextPhase2)

SpecPhase2Fair == SpecPhase2 /\ FairPhase2

\* ===================================================== the background run
\* most clauses of a run followed from _run_analysis to its end
MaxRunClauses == 2

\* _run_analysis has been started for a review that reviews:create made
InitRun ==
    /\ contract_text = <<>>
    /\ clauses = <<>>
    /\ expanded = <<>>
    /\ capped = <<>>
    /\ limit = 0
    /\ used = 0
    /\ doc = <<>>
    /\ ocr_words = <<>>
    /\ positions = <<>>
    /\ seed_rect = <<>>
    /\ para_rects = <<>>
    /\ k2_reply = <<>>
    /\ pc = "run"
    /\ run_pc = "start"
    /\ env = <<>>
    /\ task_pc = <<>>
    /\ rag_context = <<>>
    /\ task_result = <<>>
    /\ sem = 0
    /\ counter = 0
    /\ sent = <<>>
    /\ saved_clauses = {}
    /\ clause_results = <<>>
    /\ summary_log = <<>>
    /\ summary_data = <<>>
    /\ review = [status |-> "pending", results |-> <<>>]

\* convex.mutation("reviews:updateStatus", {status}) inside try/except: the
\* review as it is afterwards when the mutation went through (ok) or raised
updateStatus(r, status, ok) == IF ok THEN [r EXCEPT !.status = status] ELSE r

\* run_contract_analysis up to its first await: status 'processing'
StartRun ==
    /\ run_pc = "start"
    /\ \E ok \in BOOLEAN : review' = updateStatus(review, "processing", ok)
    /\ run_pc' = "phase1"
    /\ UNCHANGED <<env, taskvars, clause_results, summary_log, summary_data>>
    /\ UNCHANGED <<contract_text, clauses, expanded, capped, limit, pc, used>>
    /\ UNCHANGED <<posvars, expvars, k2vars>>

\* phase 1 and the start of phase 2: extract_clauses_k2 has returned the
\* clauses, the total was reported, the positions were located (or the
\* locator raised: no positions), the semaphore and the counter were made
\* and asyncio.gather has created one task per clause
Phase1 ==
    /\ run_pc = "phase1"
    /\ \E n \in 0..MaxRunClauses :
          /\ clauses' = RunClauses(n)
          /\ positions' \in RunPositions(n)
          /\ env' \in TaskEnvs(n)
          /\ task_pc' = [i \in 1..n |-> "waiting"]
          /\ rag_context' = [i \in 1..n |-> ""]
          /\ task_result' = [i \in 1..n |-> <<>>]
    /\ sem' = CLAUSE_CONCURRENCY
    /\ counter' = 0
    /\ run_pc' = "phase2"
    /\ UNCHANGED <<sent, saved_clauses, clause_results, summary_log,
                   summary_data, review>>
    /\ UNCHANGED <<contract_text, expanded, capped, limit, pc, used>>
    /\ UNCHANGED <<doc, ocr_words, expvars, k2vars>>

\* c['explanation'][:200] in _build_summary_prompt works for a string only
prompt_builds(results) ==
    \A i \in 1..Len(results) : results[i].explanation.type = "str"

\* _generate_summary up to its first await: the prompt is built outside
\* every try block, so a TypeError leaves _generate_summary and reaches the
\* handler of run_contract_analysis
BuildPrompt ==
    /\ run_pc = "gathered"
    /\ IF prompt_builds(clause_results)
       THEN /\ run_pc' = "dedalus"
            /\ summary_log' = summary_log
       ELSE /\ run_pc' = "except"
            /\ summary_log' = Append(summary_log,
                                     [source |-> "prompt", outcome |-> "raised"])
    /\ UNCHANGED <<env, taskvars, clause_results, summary_data, review>>
    /\ UNCHANGED <<contract_text, clauses, expanded, capped, limit, pc, used>>
    /\ UNCHANGED <<posvars, expvars, k2vars>>

\* what the Dedalus attempt can come to: JSON holding a dict, JSON holding
\* something else (a list), the 60-second timeout, an exception, output
\* that json.loads rejects
DedalusOutcomes == {"ok", "list", "timeout", "error", "unparsable"}

\* the same for the K2 attempt, which has no timeout of its own here
K2SummaryOutcomes == {"ok", "list", "error", "unparsable"}

\* an attempt returns its parsed output when json.loads accepted it
Supplies(outcome) == outcome \in {"ok", "list"}

\* attempt 1 of _generate_summary
DedalusReturns ==
    /\ run_pc = "dedalus"
    /\ \E out \in DedalusOutcomes :
          /\ summary_log' = Append(summary_log,
                                   [source |-> "dedalus", outcome |-> out])
          /\ IF Supplies(out)
             THEN /\ summary_data' = [source |-> "dedalus", dict |-> out = "ok"]
                  /\ run_pc' = "assemble"
             ELSE /\ summary_data' = summary_data
                  /\ run_pc' = "k2summary"
    /\ UNCHANGED <<env, taskvars, clause_results, review>>
    /\ UNCHANGED <<contract_text, clauses, expanded, capped, limit, pc, used>>
    /\ UNCHANGED <<posvars, expvars, k2vars>>

\* attempt 2 of _generate_summary and, when it fails, attempt 3: the local
\* computation, which runs at once
K2SummaryReturns ==
    /\ run_pc = "k2summary"
    /\ \E out \in K2SummaryOutcomes :
          LET tried == Append(summary_log, [source |-> "k2", outcome |-> out])
          IN  IF Supplies(out)
              THEN /\ summary_log' = tried
                   /\ summary_data' = [source |-> "k2", dict |-> out = "ok"]
              ELSE /\ summary_log' = Append(tried, [source |-> "local",
                                                    outcome |-> "ok"])
                   /\ summary_data' = [source |-> "local", dict |-> TRUE]
    /\ run_pc' = "assemble"
    /\ UNCHANGED <<env, taskvars, clause_results, review>>
    /\ UNCHANGED <<contract_text, clauses, expanded, capped, limit, pc, used>>
    /\ UNCHANGED <<posvars, expvars, k2vars>>

\* _save_results: reviews:setResults inside try/except; the exception is
\* printed and dropped
save_results(r, data, ok) == IF ok THEN [r EXCEPT !.results = <<data.source>>] ELSE r

\* phase 4: summary_data.get(...) needs a dict; then the results are saved,
\* run_contract_analysis returns and _run_analysis ends
SaveAndReturn ==
    /\ run_pc = "assemble"
    /\ IF summary_data.dict
       THEN /\ \E ok \in BOOLEAN : review' = save_results(review, summary_data, ok)
            /\ run_pc' = "finished"
       ELSE /\ review' = review
            /\ run_pc' = "except"
    /\ UNCHANGED <<env, taskvars, clause_results, summary_log, summary_data>>
    /\ UNCHANGED <<contract_text, clauses, expanded, capped, limit, pc, used>>
    /\ UNCHANGED <<posvars, expvars, k2vars>>

\* except Exception in run_contract_analysis (status 'failed', RuntimeError
\* raised) and then except BaseException in _run_analysis (status 'failed'
\* once more); both mutations are inside try/except pass
HandleException ==
    /\ run_pc = "except"
    /\ \E ok1, ok2 \in BOOLEAN :
          review' = updateStatus(updateStatus(review, "failed", ok1), "failed", ok2)
    /\ run_pc' = "finished"
    /\ UNCHANGED <<env, taskvars, clause_results, summary_log, summary_data>>
    /\ UNCHANGED <<contract_text, clauses, expanded, capped, limit, pc, used>>
    /\ UNCHANGED <<posvars, expvars, k2vars>>

\* the steps at which run_contract_analysis is suspended in an await
Awaiting == {"phase1", "phase2", "dedalus", "k2summary"}

\* asyncio.wait_for(..., timeout=300.0) in _run_analysis: the run is
\* cancelled where it waits (CancelledError passes every except Exception),
\* the tasks in the semaphore block give their slots back, and the handler
\* of asyncio.TimeoutError sets the status 'failed' inside try/except pass
Timeout ==
    /\ run_pc \in Awaiting
    /\ \E ok \in BOOLEAN : review' = updateStatus(review, "failed", ok)
    /\ task_pc' = [i \in 1..Len(task_pc) |->
                      IF task_pc[i] = "done" THEN "done" ELSE "cancelled"]
    /\ sem' = sem + Cardinality(InProgress)
    /\ rag_context' = [i \in 1..Len(task_pc) |-> ""]
    /\ run_pc' = "finished"
    /\ UNCHANGED <<task_result, counter, sent, saved_clauses>>
    /\ UNCHANGED <<env, clause_results, summary_log, summary_data>>
    /\ UNCHANGED <<contract_text, clauses, expanded, capped, limit, pc, used>>
    /\ UNCHANGED <<posvars, expvars, k2vars>>

NextRun ==
    \/ StartRun
    \/ Phase1
    \/ \E i \in 1..Len(task_pc) : TaskStep(i)
    \/ Gather
    \/ BuildPrompt
    \/ DedalusReturns
    \/ K2SummaryReturns
    \/ SaveAndReturn
    \/ HandleException
    \/ Timeout

SpecRun == InitRun /\ [][NextRun]_vars

\* ===================================================================== claims
\* a top-level clause in the sense of the data model: parentHeading absent
NoParent(c) == ~HasParentHeading(c)

TopLevelOf(cl) == SelectSeq(cl, LAMBDA c : NoParent(c))

SubClausesOf(cl) == SelectSeq(cl, LAMBDA c : HasParentHeading(c))

Ids(cl) == {cl[i].id : i \in 1..Len(cl)}

\* a is b with some entries left out, order kept
RECURSIVE IsSubsequence(_, _)
IsSubsequence(a, b) ==
    IF a = <<>> THEN TRUE
    ELSE IF b = <<>> THEN FALSE
    ELSE IF Head(a) = Head(b) THEN IsSubsequence(Tail(a), Tail(b))
    ELSE IsSubsequence(a, Tail(b))

\* C1: the capped list has at most limit clauses, and when the input has at
\* least limit top-level clauses (clauses without a parentHeading) the result
\* is exactly the first limit of them.
C1_CapBound ==
    pc = "capped" =>
        /\ Len(capped) <= limit
        /\ Len(TopLevelOf(expanded)) >= limit
              => capped = Prefix(TopLevelOf(expanded), limit)

\* C2: with more than limit clauses but fewer than limit top-level ones, the
\* result is every top-level clause plus the first (limit - top-level count)
\* sub-clauses, in original order, limit clauses in all.
C2_CapFill ==
    (pc = "capped" /\ Len(expanded) > limit /\ Len(TopLevelOf(expanded)) < limit) =>
        LET first_subs == Prefix(SubClausesOf(expanded),
                                 limit - Len(TopLevelOf(expanded)))
        IN  /\ capped = SelectSeq(expanded,
                           LAMBDA c : NoParent(c) \/ c.id \in Ids(first_subs))
            /\ Len(capped) = limit

\* C3: the capped list is a subsequence of the input (nothing new, nothing
\* twice, relative order kept), and equals the input when that has at most
\* limit clauses.
C3_CapSubsequence ==
    pc = "capped" =>
        /\ IsSubsequence(capped, expanded)
        /\ \A i, j \in 1..Len(capped) : i # j => capped[i].id # capped[j].id
        /\ Len(expanded) <= limit => capped = expanded

\* C3 witness: the cap dropped a sub-clause and kept a sub-clause that stands
\* before a kept top-level clause, so the rebuild had to interleave
C3_Witness ==
    /\ pc = "capped"
    /\ Len(capped) < Len(expanded)
    /\ \E i, j \in 1..Len(capped) :
          i < j /\ TruthyParentHeading(capped[i]) /\ ~TruthyParentHeading(capped[j])
    /\ \E c \in Range(expanded) : TruthyParentHeading(c) /\ c \notin Range(capped)

\* the entries of the split list that come from input clause i, and its children
DerivedOf(i) == SelectSeq(expanded, LAMBDA c : c.id[1] = i)

ChildrenOf(i) == SelectSeq(expanded, LAMBDA c : c.id[1] = i /\ HasParentHeading(c))

\* the preamble entry split_into_subclauses made for the parent of child c
IsPreambleOf(d, c) == d.id[1] = c.id[1] /\ d.id[2] = 1

\* C4 (as stated): every sub-clause kept by the cap has, in the capped list,
\* a top-level clause whose heading is its parentHeading.
C4_ParentRepresented ==
    pc = "capped" =>
        \A c \in Range(capped) :
            HasParentHeading(c) =>
                \E d \in Range(capped) : NoParent(d) /\ d.heading = c.parentHeading

\* C4 (amended): every sub-clause kept by the cap whose parent got a preamble
\* entry from the splitter has that preamble entry in the capped list too; the
\* preamble is top-level and its heading is the sub-clause's parentHeading.
C4_PreambleRetained ==
    pc = "capped" =>
        \A c \in Range(capped) :
            HasParentHeading(c) =>
                \A d \in Range(expanded) :
                    IsPreambleOf(d, c) =>
                        /\ d \in Range(capped)
                        /\ NoParent(d)
                        /\ d.heading = c.parentHeading

\* C4 witness: the cap dropped a clause and kept a child next to its preamble
C4_Witness ==
    /\ pc = "capped"
    /\ Len(capped) < Len(expanded)
    /\ \E c, d \in Range(capped) : HasParentHeading(c) /\ IsPreambleOf(d, c)

\* C5: a clause whose text holds fewer than two sub-clause markers is in the
\* split list unchanged (the same dict), after everything that comes from the
\* clauses before it and before everything that comes from the clauses after.
C5_Identity ==
    pc = "split" =>
        \A i \in 1..Len(clauses) :
            Len(sub_matches(clauses[i].text)) < 2 =>
                \E p \in 1..Len(expanded) :
                    /\ expanded[p] = clauses[i]
                    /\ \A q \in 1..Len(expanded) :
                          /\ q < p => expanded[q].id[1] < i
                          /\ q > p => expanded[q].id[1] > i

\* C5 witness: a clause with exactly one marker follows a clause that was
\* expanded into several entries
C5_Witness ==
    /\ pc = "split"
    /\ \E i \in 2..Len(clauses) :
          /\ Len(sub_matches(clauses[i].text)) = 1
          /\ Len(DerivedOf(i - 1)) >= 2

\* C6: the children of an expanded clause carry its heading as parentHeading
\* and the subClauseIndex values 0, 1, 2, ... in the order emitted, without gap.
C6_ChildIndices ==
    pc = "split" =>
        \A i \in 1..Len(clauses) :
            \A k \in 1..Len(ChildrenOf(i)) :
                /\ ChildrenOf(i)[k].parentHeading = clauses[i].heading
                /\ ChildrenOf(i)[k].subClauseIndex = k - 1

\* the two children the example of C7 is to be split into
TwoChildren(i) ==
    /\ Len(DerivedOf(i)) = 2
    /\ \A k \in 1..2 :
          /\ HasParentHeading(DerivedOf(i)[k])
          /\ DerivedOf(i)[k].parentHeading = clauses[i].heading
          /\ DerivedOf(i)[k].subClauseIndex = k - 1
    /\ DerivedOf(i)[1].text = Conf
    /\ DerivedOf(i)[2].text = Tail(SpRem)

\* C7 (as stated): the text with both decimal markers on one line,
\* "3.1 Confidentiality. ... disclose. 3.2 Remedies. ... available.", is split
\* into two children with subClauseIndex 0 and 1.
C7_SameLineMarkers ==
    pc = "split" =>
        \A i \in 1..Len(clauses) : clauses[i].text = Conf \o SpRem => TwoChildren(i)

\* position p of t is preceded, back to the start of its line, by blanks only
AtLineStart(t, p) ==
    LET q == RunStart(t, p - 1, {" "}) IN q = 0 \/ t[q] = "\n"

\* C7 (amended): the text with the second marker at the start of its own line
\* is split into the two children; and every child of every clause begins at
\* the start of a line of the parent's text (after optional blanks), so the
\* one-line text stays a single clause.
C7_LineStartMarkers ==
    pc = "split" =>
        \A i \in 1..Len(clauses) :
            /\ clauses[i].text = Conf \o NlRem => TwoChildren(i)
            /\ clauses[i].text = Conf \o SpRem => DerivedOf(i) = <<clauses[i]>>
            /\ \A c \in Range(ChildrenOf(i)) :
                  \E p \in 1..(Len(clauses[i].text) - Len(c.text) + 1) :
                      /\ SubSeq(clauses[i].text, p, p + Len(c.text) - 1) = c.text
                      /\ AtLineStart(clauses[i].text, p)

\* C7 witness: the two-line example has been split
C7_Witness ==
    /\ pc = "split"
    /\ \E i \in 1..Len(clauses) : clauses[i].text = Conf \o NlRem /\ TwoChildren(i)

\* C8: every clause of the chain extract_clauses -> split_into_subclauses ->
\* _cap_clauses has a text of at most 3000 and a heading of at most 100
\* characters.
C8_LengthBound ==
    \A c \in Range(clauses) \cup Range(expanded) \cup Range(capped) :
        Len(c.text) <= TEXT_CAP /\ Len(c.heading) <= HEADING_CAP

\* C8 witness: a section longer than 3000 characters whose first line is longer
\* than 100 went through the chain and sits in the capped list, cut to both caps
C8_Witness ==
    /\ pc = "capped"
    /\ Len(contract_text) > TEXT_CAP
    /\ \E c \in Range(capped) : Len(c.text) = TEXT_CAP /\ Len(c.heading) = HEADING_CAP

\* C9: after extract_clauses and split_into_subclauses every clause has a text
\* that is non-empty when trimmed; a top-level clause has at least 30
\* characters and a sub-clause at least 20.
C9_MinLength ==
    pc = "split" =>
        \A c \in Range(expanded) :
            /\ Strip(c.text) # <<>>
            /\ NoParent(c) => Len(c.text) >= MIN_SECTION_LEN
            /\ HasParentHeading(c) => Len(c.text) >= SUB_MIN

\* C9 witness: a section was split into a preamble and children, one child of
\* exactly 20 characters, while a marker span under 20 characters was skipped
C9_Witness ==
    /\ pc = "split"
    /\ \E c, d \in Range(expanded) :
          /\ HasParentHeading(c) /\ Len(c.text) = SUB_MIN
          /\ IsPreambleOf(d, c)
          /\ Len(sub_matches(clauses[c.id[1]].text)) > Len(ChildrenOf(c.id[1]))

\* the text holds no boundary marker: the pattern of extract_clauses matches
\* nowhere
NoBoundary(t) == ~HeadingAt(t, 1) /\ \A p \in 1..Len(t) : ~(t[p] = "\n" /\ HeadingAt(t, p + 1))

\* C10: for a text without any boundary marker extract_clauses returns one
\* clause per blank-line-delimited paragraph of at least 30 characters, headed
\* "Section N", and not the whole text as one clause headed by its first line.
C10_ParagraphFallback ==
    (pc = "extracted" /\ NoBoundary(contract_text)) =>
        clauses = extract_paragraphs(SplitBlankLines(contract_text, 1), 1, 0)

\* every line of t (t.split("\n")) is shorter than n characters
AllLinesShorter(t, n) ==
    \A p \in 0..Len(t) :
        (p = 0 \/ t[p] = "\n") => IndexOf(t, "\n", p + 1) - (p + 1) < n

\* every piece of a split has fewer than 30 characters once trimmed
AllShort(pieces) == \A k \in 1..Len(pieces) : Len(Strip(pieces[k])) < MIN_SECTION_LEN

KeptSegments(t) ==
    SelectSeq(re_split_sections(t), LAMBDA seg : Len(Strip(seg)) >= MIN_SECTION_LEN)

\* the second line of s, empty when s has one line
SecondLine(s) ==
    LET a == IndexOf(s, "\n", 1) IN SubSeq(s, a + 1, IndexOf(s, "\n", a + 1) - 1)

\* h is a bare number label: digits and dots, then dots and parentheses
PurelyNumeric(h) ==
    /\ h # <<>>
    /\ h[1] \in Digits
    /\ \A k \in 1..Len(h) :
          /\ h[k] \in Digits \cup DotParen
          /\ \A j \in 1..(k - 1) : h[j] = ")" => h[k] \in DotParen

\* the first line of a trimmed segment, trimmed and cut to 100 characters
FirstLineHeading(seg) == Prefix(Strip(FirstLine(Strip(seg))), HEADING_CAP)

\* the text has a boundary marker and a segment of at least 30 characters
HasKeptSegment(t) == ~NoBoundary(t) /\ KeptSegments(t) # <<>>

\* C12 (as stated): with a boundary marker and a segment of 30 or more
\* characters, extract_clauses returns one clause per such segment, in document
\* order; the heading is the segment's first line and the text the segment's
\* first 3000 characters.
C12_SegmentFirstLine ==
    (pc = "extracted" /\ HasKeptSegment(contract_text)) =>
        LET kept == KeptSegments(contract_text)
        IN  /\ Len(clauses) = Len(kept)
            /\ \A k \in 1..Len(kept) :
                  /\ clauses[k].text = Prefix(Strip(kept[k]), TEXT_CAP)
                  /\ clauses[k].heading = FirstLineHeading(kept[k])

\* C12 (amended): the same, the heading being the segment's first line (cut to
\* 100 characters) unless that line is a bare number label and the segment has
\* a second line: then it is the label, a space and the first 80 characters of
\* the second line, cut to 100 characters.
C12_SegmentClauses ==
    (pc = "extracted" /\ HasKeptSegment(contract_text)) =>
        LET kept == KeptSegments(contract_text)
        IN  /\ Len(clauses) = Len(kept)
            /\ \A k \in 1..Len(kept) :
                  LET seg == Strip(kept[k])
                      first == FirstLineHeading(seg)
                      second == Prefix(Strip(SecondLine(seg)), NEXT_LINE_CAP)
                  IN  /\ clauses[k].text = Prefix(seg, TEXT_CAP)
                      /\ clauses[k].heading =
                            IF PurelyNumeric(first) /\ first # seg
                            THEN Prefix(first \o <<" ">> \o second, HEADING_CAP)
                            ELSE first

\* C12 witness: a non-empty segment was dropped and a kept segment opening
\* with a bare number got its heading from its first two lines
C12_Witness ==
    /\ pc = "extracted"
    /\ HasKeptSegment(contract_text)
    /\ \E seg \in Range(re_split_sections(contract_text)) :
          Strip(seg) # <<>> /\ Len(Strip(seg)) < MIN_SECTION_LEN
    /\ \E k \in 1..Len(clauses) :
          /\ PurelyNumeric(FirstLine(clauses[k].text))
          /\ Len(clauses[k].heading) > Len(FirstLine(clauses[k].text))

\* the trimmed text of clause c before its first sub-clause marker
PreambleText(c) == Strip(SubSeq(c.text, 1, sub_matches(c.text)[1] - 1))

\* the entries made from input clause i that carry no parentHeading
PreambleEntries(i) == SelectSeq(DerivedOf(i), LAMBDA c : NoParent(c))

\* what a preamble entry of input clause i looks like and where it stands
PreambleShape(i) ==
    /\ Len(PreambleEntries(i)) = 1
    /\ DerivedOf(i)[1] = PreambleEntries(i)[1]
    /\ DerivedOf(i)[1].heading = clauses[i].heading
    /\ DerivedOf(i)[1].text = Prefix(PreambleText(clauses[i]), TEXT_CAP)

\* C18 (as stated): a clause with at least 2 markers gets a preamble entry
\* (original heading, no parentHeading, before the children) exactly when the
\* trimmed text before the first marker has at least 30 characters.
C18_PreambleAtLeast30 ==
    pc = "split" =>
        \A i \in 1..Len(clauses) :
            Len(sub_matches(clauses[i].text)) >= 2 =>
                IF Len(PreambleText(clauses[i])) >= 30
                THEN PreambleShape(i) ELSE PreambleEntries(i) = <<>>

\* C18 (amended): the preamble entry is emitted exactly when the trimmed text
\* before the first marker has more than 30 characters; a preamble of exactly
\* 30 characters is not emitted.
C18_PreambleOver30 ==
    pc = "split" =>
        \A i \in 1..Len(clauses) :
            Len(sub_matches(clauses[i].text)) >= 2 =>
                IF Len(PreambleText(clauses[i])) > 30
                THEN PreambleShape(i) ELSE PreambleEntries(i) = <<>>

\* C18 witness: a clause with a preamble of exactly 30 characters was split into
\* children only
C18_Witness ==
    /\ pc = "split"
    /\ \E i \in 1..Len(clauses) :
          /\ Len(sub_matches(clauses[i].text)) >= 2
          /\ Len(PreambleText(clauses[i])) = 30
          /\ ChildrenOf(i) # <<>>
          /\ PreambleEntries(i) = <<>>

\* C19: when the cap has to drop something, a clause carrying a parentHeading
\* field (even an empty one) is returned only as one of the first
\* (limit - top-level count) sub-clauses, never by the branch that returns
\* top-level clauses only.
C19_FieldMeansSubClause ==
    (pc = "capped" /\ Len(expanded) > limit) =>
        \A c \in Range(capped) :
            HasParentHeading(c) =>
                /\ Len(TopLevelOf(expanded)) < limit
                /\ c.id \in Ids(Prefix(SubClausesOf(expanded),
                                       limit - Len(TopLevelOf(expanded))))

\* C20: split_into_subclauses loses no clause: every input clause has at least
\* one entry in the output (itself, its preamble or a child), and the entries
\* stand in the order of the input clauses.
C20_NoClauseLost ==
    pc = "split" =>
        /\ \A i \in 1..Len(clauses) : DerivedOf(i) # <<>>
        /\ \A p, q \in 1..Len(expanded) :
              p < q => expanded[p].id[1] <= expanded[q].id[1]

\* the no-match position, written out
NoMatch == [pageNumber |-> 0, rects |-> <<>>, pageWidth |-> 612, pageHeight |-> 792]

\* the position a locator returns for clause i handed to it alone
PositionAlone(i) ==
    IF pc = "located" THEN extract_clause_positions(doc, <<clauses[i]>>)
    ELSE match_clauses_to_ocr_boxes(<<clauses[i]>>, ocr_words, doc)

\* C13: both locators return one position per clause, the position at index i
\* being the one computed for clause i, whether matched or not.
C13_IndexAligned ==
    pc \in {"located", "matched"} =>
        /\ Len(positions) = Len(clauses)
        /\ \A i \in 1..Len(clauses) : PositionAlone(i) = <<positions[i]>>

\* C13 witness: of two clauses the first was not found and the second was
C13_Witness ==
    /\ pc = "located"
    /\ Len(clauses) = 2
    /\ positions[1].rects = <<>>
    /\ positions[2].rects # <<>>
    /\ positions[2].pageNumber > 0

\* the pages (counted from 1) on which the j-th snippet of raw is searched and
\* stands: a snippet under 10 characters is not searched
SnippetPages(raw, j) ==
    LET snippet == snippet_of(raw, SNIPPET_LENS[j])
    IN  {k \in 1..Len(doc) :
            /\ Len(snippet) >= 10
            /\ Occurrences(ToLower(page_text(doc[k])), ToLower(snippet)) # {}}

\* the first (up to 8) tokens of clause i
TargetOf(i) == Prefix(ocr_tokens(Strip(clauses[i].text)), 8)

\* the scores of clause i at the offsets of a set
ScoresAt(i, offsets) == {window_score(ocr_words, TargetOf(i), o) : o \in offsets}

\* C14: an unmatched clause gets exactly the no-match position: in
\* extract_clause_positions when none of the three snippets is found on any
\* page, in match_clauses_to_ocr_boxes when the clause has fewer than 3 tokens,
\* the word list is empty or no window scores 3; and no clause is left out.
C14_UnmatchedSentinel ==
    /\ pc = "located" =>
          /\ Len(positions) = Len(clauses)
          /\ \A i \in 1..Len(clauses) :
                (\A j \in 1..3 : SnippetPages(Strip(clauses[i].text), j) = {})
                    => positions[i] = NoMatch
    /\ pc = "matched" =>
          /\ Len(positions) = Len(clauses)
          /\ \A i \in 1..Len(clauses) :
                (\/ Len(ocr_tokens(Strip(clauses[i].text))) < 3
                 \/ ocr_words = <<>>
                 \/ \A s \in ScoresAt(i, 0..(Len(ocr_words) - 1)) : s < 3)
                    => positions[i] = NoMatch

\* C14 witness: with a non-empty word list, a clause of 2 tokens and a clause
\* whose best window scores 2 both got the no-match position
C14_Witness ==
    /\ pc = "matched"
    /\ ocr_words # <<>>
    /\ \E i, k \in 1..Len(clauses) :
          /\ Len(ocr_tokens(Strip(clauses[i].text))) < 3
          /\ Len(ocr_tokens(Strip(clauses[k].text))) >= 3
          /\ 2 \in ScoresAt(k, 0..(Len(ocr_words) - 1))
          /\ positions[i] = NoMatch
          /\ positions[k] = NoMatch

\* the snippet lengths (1 for 80, 2 for 50, 3 for 30) found on some page
LengthsFound(raw) == {j \in 1..3 : SnippetPages(raw, j) # {}}

\* C15: the page of a position is the lowest-numbered page carrying the longest
\* snippet found anywhere, whatever pages carry a shorter snippet; the page
\* size is that page's.
C15_LongestSnippetFirst ==
    pc = "located" =>
        \A i \in 1..Len(clauses) :
            LET raw == Strip(clauses[i].text)
            IN  LengthsFound(raw) # {} =>
                    LET k == MinOf(SnippetPages(raw, MinOf(LengthsFound(raw))))
                    IN  /\ positions[i].pageNumber = k - 1
                        /\ positions[i].pageWidth = doc[k].width
                        /\ positions[i].pageHeight = doc[k].height
                        /\ positions[i].rects # <<>>

\* C15 witness: the 50-character snippet stands on the first page, the
\* 80-character snippet on the second page only, and the position is on the
\* second page
C15_Witness ==
    /\ pc = "located"
    /\ \E i \in 1..Len(clauses) :
          /\ SnippetPages(Strip(clauses[i].text), 1) = {2}
          /\ 1 \in SnippetPages(Strip(clauses[i].text), 2)
          /\ snippet_of(Strip(clauses[i].text), 80) # snippet_of(Strip(clauses[i].text), 50)
          /\ positions[i].pageNumber = 1

\* the offsets (counted from 0) at which the window of clause i fits into the
\* word list
FittingOffsets(i) == 0..(Len(ocr_words) - Len(TargetOf(i)))

\* C16: a clause of at least 3 tokens for which some offset at which the window
\* fits, the last one included, scores at least 3 gets a position other than
\* the no-match position.
C16_EveryOffsetScored ==
    pc = "matched" =>
        \A i \in 1..Len(clauses) :
            (/\ Len(ocr_tokens(Strip(clauses[i].text))) >= 3
             /\ \E s \in ScoresAt(i, FittingOffsets(i)) : s >= 3)
                => positions[i] # NoMatch

\* C17: a clause of at least 3 tokens is matched exactly when the highest
\* window score is at least 3, and then its position is on the page of the
\* word at an offset with that score.
C17_BestScoreThreshold ==
    pc = "matched" =>
        \A i \in 1..Len(clauses) :
            Len(ocr_tokens(Strip(clauses[i].text))) >= 3 =>
                LET best == MaxOf(ScoresAt(i, FittingOffsets(i)) \cup {0})
                IN  IF best < 3 THEN positions[i] = NoMatch
                    ELSE /\ positions[i] # NoMatch
                         /\ \E o \in FittingOffsets(i) :
                               /\ window_score(ocr_words, TargetOf(i), o) = best
                               /\ positions[i].pageNumber = ocr_words[o + 1].page

\* ------------------------------------------------------------------ C21
\* twice the distance between the vertical centres of a line and the seed
LineDist(line, seed) ==
    Abs((line.bbox[2] + line.bbox[4]) - (seed.y0 + seed.y1))

\* the first of the lines nearest to the seed
NearestLine(lines, seed) ==
    MinOf({k \in 1..Len(lines) :
              \A j \in 1..Len(lines) :
                  LineDist(lines[k], seed) <= LineDist(lines[j], seed)})

\* the words of a line, as the code counts them: its distinct lowercased
\* runs of 3 or more letters
LineWords(line) == letter_words(ToLower(line.text))

\* the candidate words of the clause that the line holds
SharedWords(line, text) ==
    LineWords(line) \cap letter_words(Prefix(ToLower(text), 500))

\* the word-overlap rule for a line after the starting line
FollowsRule(line, text) ==
    \/ Cardinality(SharedWords(line, text)) >= 2
    \/ /\ Cardinality(SharedWords(line, text)) >= 1
       /\ Cardinality(LineWords(line)) <= 3

\* C21: _expand_to_paragraph returns the boxes of a run of consecutive lines
\* that begins at the starting line (the first line nearest the seed); every
\* line of the run after the first follows the word-overlap rule, so no line
\* behind a failing line is returned; the result is never empty, and is the
\* seed rectangle alone on a page without lines.
C21_ExpandRun ==
    pc = "expanded" =>
        LET lines == doc[1].lines
            text == Strip(clauses[1].text)
            s == NearestLine(lines, seed_rect)
        IN  /\ para_rects # <<>>
            /\ lines = <<>> => para_rects = <<seed_rect>>
            /\ lines # <<>> =>
                  /\ s + Len(para_rects) - 1 <= Len(lines)
                  /\ \A k \in 1..Len(para_rects) :
                        para_rects[k] = RectOf(lines[s + k - 1].bbox)
                  /\ \A k \in 2..Len(para_rects) :
                        FollowsRule(lines[s + k - 1], text)

\* C21 witness: a run of several lines ended by a failing line, behind which
\* stands a line that follows the rule
C21_Witness ==
    /\ pc = "expanded"
    /\ Len(para_rects) >= 2
    /\ LET lines == doc[1].lines
           after == NearestLine(lines, seed_rect) + Len(para_rects)
       IN  /\ after + 1 <= Len(lines)
           /\ ~FollowsRule(lines[after], clauses[1].text)
           /\ FollowsRule(lines[after + 1], clauses[1].text)

\* ------------------------------------------------------------------ C22
\* C22: when the starting line is followed by 30 or more lines that all follow
\* the word-overlap rule, the starting line and the 30 lines after it are
\* returned, 31 rectangles in all.
C22_ThirtyLinesAfterStart ==
    LET lines == doc[1].lines
        text == Strip(clauses[1].text)
        s == NearestLine(lines, seed_rect)
    IN  (/\ pc = "expanded"
         /\ lines # <<>>
         /\ s + 30 <= Len(lines)
         /\ \A k \in 1..30 : FollowsRule(lines[s + k], text))
        => /\ Len(para_rects) = 31
           /\ \A k \in 1..31 : para_rects[k] = RectOf(lines[s + k - 1].bbox)

\* ------------------------------------------------------------------ C23
\* the offset (counted from 0) at which the matcher found clause i
BestOffset(i) == best_window(ocr_words, TargetOf(i), 0, -1, 0)[1]

\* the clause was matched: its position is not the no-match position
Matched(i) == positions[i] # NoMatch

\* the words collected for clause i: from the word at the best offset on, at
\* most 40 of them, up to the word before the first one of another page
CollectedWords(i) ==
    LET first == BestOffset(i) + 1
        last == Min(BestOffset(i) + 40, Len(ocr_words))
        other == {k \in first..last : ocr_words[k].page # ocr_words[first].page}
    IN  SubSeq(ocr_words, first, IF other = {} THEN last ELSE MinOf(other) - 1)

\* the union of the boxes of words from..to of run
UnionBox(run, from, to) ==
    [x0 |-> MinOf({run[k].x0 : k \in from..to}),
     y0 |-> MinOf({run[k].y0 : k \in from..to}),
     x1 |-> MaxOf({run[k].x1 : k \in from..to}),
     y1 |-> MaxOf({run[k].y1 : k \in from..to})]

\* boxes k.. are the unions of consecutive groups that make up run from word
\* from on
RECURSIVE PartitionsRun(_, _, _, _)
PartitionsRun(run, from, boxes, k) ==
    IF k > Len(boxes) THEN from > Len(run)
    ELSE \E to \in from..Len(run) :
            /\ UnionBox(run, from, to) = boxes[k]
            /\ PartitionsRun(run, to + 1, boxes, k + 1)

\* the box of word w lies inside the rectangle
Inside(w, rect) ==
    /\ rect.x0 <= w.x0
    /\ rect.y0 <= w.y0
    /\ w.x1 <= rect.x1
    /\ w.y1 <= rect.y1

\* the rectangles of clause i in which word w lies
RectsHolding(i, w) ==
    {k \in 1..Len(positions[i].rects) : Inside(w, positions[i].rects[k])}

\* C23: for a matched clause the collected words are the run of at most 40
\* words from the best offset on the page of its first word; the rects are the
\* unions of consecutive groups that partition the run; every collected word
\* lies inside exactly one rect, and pageNumber is the page of all of them.
C23_RunPartition ==
    pc = "matched" =>
        \A i \in 1..Len(clauses) :
            Matched(i) =>
                LET run == CollectedWords(i)
                IN  /\ run # <<>>
                    /\ PartitionsRun(run, 1, positions[i].rects, 1)
                    /\ \A k \in 1..Len(run) :
                          /\ Cardinality(RectsHolding(i, run[k])) = 1
                          /\ run[k].page = positions[i].pageNumber

\* C23 as amended: the same with 'at least one' for 'exactly one': every
\* collected word lies inside the rect of its group, and may lie inside the
\* rect of another group as well.
C23_RunCovered ==
    pc = "matched" =>
        \A i \in 1..Len(clauses) :
            Matched(i) =>
                LET run == CollectedWords(i)
                IN  /\ run # <<>>
                    /\ PartitionsRun(run, 1, positions[i].rects, 1)
                    /\ \A k \in 1..Len(run) :
                          /\ RectsHolding(i, run[k]) # {}
                          /\ run[k].page = positions[i].pageNumber

\* C23 witness: a matched clause with two rects, one of whose words lies inside
\* both
C23_Witness ==
    /\ pc = "matched"
    /\ \E i \in 1..Len(clauses) :
          /\ Matched(i)
          /\ Len(positions[i].rects) >= 2
          /\ \E k \in 1..Len(CollectedWords(i)) :
                Cardinality(RectsHolding(i, CollectedWords(i)[k])) = 2

\* a matched clause whose run was cut at 40 words
RunCutAtForty ==
    /\ pc = "matched"
    /\ \E i \in 1..Len(clauses) :
          /\ Matched(i)
          /\ Len(CollectedWords(i)) = 40
          /\ BestOffset(i) + 40 < Len(ocr_words)
          /\ ocr_words[BestOffset(i) + 41].page = positions[i].pageNumber

\* ------------------------------------------------------------------ C30
\* the offsets the scan of the matcher visits for clause i
VisitedOffsets(i) == 0..(Len(ocr_words) - Len(TargetOf(i)) - 1)

\* the locator found clause i: a snippet of it stands on a page, or a visited
\* window of the word list scores at least 3
Found(i) ==
    IF pc = "located" THEN LengthsFound(Strip(clauses[i].text)) # {}
    ELSE /\ Len(ocr_tokens(Strip(clauses[i].text))) >= 3
         /\ \E s \in ScoresAt(i, VisitedOffsets(i)) : s >= 3

\* C30: in the output of both locators a position has no rects exactly when it
\* is the no-match position, and every clause that was found has at least one
\* rect: no position names a page without a rectangle on it.
C30_EmptyIffSentinel ==
    pc \in {"located", "matched"} =>
        \A i \in 1..Len(positions) :
            /\ positions[i].rects = <<>> <=> positions[i] = NoMatch
            /\ positions[i].rects # <<>> \/ ~Found(i)

\* C30 witness: the matcher gave one clause the no-match position and another
\* a single rectangle on the page of its first word
C30_Witness ==
    /\ pc = "matched"
    /\ \E i, k \in 1..Len(positions) :
          /\ positions[i] = NoMatch
          /\ Found(k)
          /\ Len(positions[k].rects) = 1

\* ------------------------------------------------------------------ C24
\* a from entry i on is b from entry j on with some entries left out
RECURSIVE SubsequenceFrom(_, _, _, _)
SubsequenceFrom(a, i, b, j) ==
    IF i > Len(a) THEN TRUE
    ELSE IF j > Len(b) THEN FALSE
    ELSE IF a[i] = b[j] THEN SubsequenceFrom(a, i + 1, b, j + 1)
    ELSE SubsequenceFrom(a, i, b, j + 1)

\* the K2 filter kept nothing or failed
FilterKeptNothing ==
    \/ k2_reply.kind = "error"
    \/ /\ k2_reply.kind = "keep"
       /\ k2_reply.keep \cap (0..(Len(expanded) - 1)) = {}

\* C24: extract_clauses_k2 returns at most 60 clauses on every path; on the
\* large-document path the result is a subsequence of the regex-extracted,
\* sub-clause-split list, and as much of the full list as the cap allows when
\* the filter keeps nothing or fails.
C24_K2Bound ==
    pc = "k2done" =>
        /\ Len(capped) <= 60
        /\ Len(contract_text) > 6000 =>
              /\ expanded = split_into_subclauses(extract_clauses(contract_text))
              /\ SubsequenceFrom(capped, 1, expanded, 1)
              /\ FilterKeptNothing =>
                    /\ Len(capped) = Min(60, Len(expanded))
                    /\ \A c \in Range(expanded) :
                          ~HasParentHeading(c) /\ Len(TopLevelOf(expanded)) <= 60
                              => c \in Range(capped)

\* C24 witness: on the large-document path the filter kept more than 60
\* entries, not the first 60, and 60 of them were returned
C24_Witness ==
    /\ pc = "k2done"
    /\ Len(contract_text) > 6000
    /\ k2_reply.kind = "keep"
    /\ Cardinality(k2_reply.keep \cap (0..(Len(expanded) - 1))) > 60
    /\ Len(capped) = 60
    /\ capped # Prefix(expanded, 60)

\* every clause task has returned a result
AllAnalysed == \A i \in 1..Len(task_result) : task_result[i] # <<>>

\* C25: at every moment of phase 2 at most 6 clause analyses (RAG lookup plus
\* K2 call) are in progress and the free slots of the semaphore are exactly
\* the 6 minus the analyses in progress; and, the event loop being fair,
\* every clause is eventually analysed.
C25_Throttle ==
    /\ [](/\ Cardinality(InProgress) <= 6
          /\ sem = 6 - Cardinality(InProgress))
    /\ <>AllAnalysed

\* C25 witness: with more than 6 clauses all slots are taken again after a
\* task has finished, so a task that had to wait got the released slot
C25_Witness ==
    /\ Len(task_pc) > 6
    /\ sem = 0
    /\ Cardinality(InProgress) = 6
    /\ \E i \in 1..Len(task_pc) : task_pc[i] = "done"

\* C27: the completedClauses values the clause tasks hand to
\* reviews:updateProgress are 1, 2, 3, ... in the order of the calls, one call
\* per finished task, and once all N tasks have returned the values are
\* exactly 1..N, the last one being the total clause count.
C27_ProgressCounts ==
    /\ \A k \in 1..Len(sent) : sent[k] = k
    /\ Len(sent) = Cardinality({i \in 1..Len(task_pc) : task_pc[i] = "done"})
    /\ run_pc = "gathered" =>
          /\ Len(sent) = Len(clauses)
          /\ Len(clauses) > 0 => sent[Len(sent)] = Len(clauses)

\* C27 witness: two progress values were sent by tasks that finished out of
\* the order of their clauses
C27_Witness ==
    /\ Len(sent) >= 2
    /\ \E i, j \in 1..Len(task_pc) :
          i < j /\ task_pc[j] = "done" /\ task_pc[i] \in {"rag", "k2"}

\* the position fields of a clause result
PositionKeys == {"pageNumber", "rects", "pageWidth", "pageHeight"}

\* C29: the list asyncio.gather returns has exactly one result per extracted
\* clause; result i carries the text (first 2000 characters), the heading and
\* the parent data of clause i, and either the position at index i or, when
\* the position list is shorter, none of the position fields.
C29_ResultsAligned ==
    run_pc = "gathered" =>
        /\ Len(clause_results) = Len(clauses)
        /\ \A i \in 1..Len(clauses) :
              LET r == clause_results[i]
              IN  /\ r.clauseText = Prefix(clauses[i].text, 2000)
                  /\ r.clauseType = clauses[i].heading
                  /\ r.parentHeading = OptGet(clauses[i], "parentHeading")
                  /\ r.subClauseIndex = OptGet(clauses[i], "subClauseIndex")
                  /\ IF i <= Len(positions)
                     THEN /\ PositionKeys \subseteq DOMAIN r
                          /\ r.pageNumber = positions[i].pageNumber
                          /\ r.rects = <<"json", positions[i].rects>>
                          /\ r.pageWidth = positions[i].pageWidth
                          /\ r.pageHeight = positions[i].pageHeight
                     ELSE PositionKeys \cap DOMAIN r = {}

\* C29 witness: a run of more than 6 clauses with positions has returned its
\* results although a RAG lookup and a K2 call failed
C29_Witness ==
    /\ run_pc = "gathered"
    /\ Len(clause_results) > 6
    /\ positions # <<>>
    /\ env.rag_fails # {}
    /\ \E i \in 1..Len(clauses) :
          /\ env.k2[i] = "fail"
          /\ clause_results[i].riskLevel = "medium"

\* the sources _generate_summary has tried so far, in order
LogSources == [k \in 1..Len(summary_log) |-> summary_log[k].source]

\* the attempts are made in the order Dedalus, K2, local, each one only after
\* the one before it has timed out, failed or given unparsable output, and
\* the returned summary is that of the one attempt that succeeded
FixedOrder ==
    /\ LogSources = Prefix(<<"dedalus", "k2", "local">>, Len(summary_log))
    /\ \A k \in 1..(Len(summary_log) - 1) : ~Supplies(summary_log[k].outcome)
    /\ summary_data # <<>> =>
          /\ summary_log # <<>>
          /\ summary_data.source = summary_log[Len(summary_log)].source
          /\ summary_log[Len(summary_log)].outcome \in {"ok", "list"}

\* the attempts that were made are in the fixed order whenever the prompt
\* could be built
SummaryOrderOnce ==
    \/ summary_log = <<>>
    \/ summary_log[1].source = "prompt"
    \/ FixedOrder

\* C26: _generate_summary tries its sources in the fixed order Dedalus, K2,
\* local, the first attempt that succeeds supplies the summary, and it never
\* raises.
C26_SummaryNeverRaises ==
    /\ \A k \in 1..Len(summary_log) : summary_log[k].outcome # "raised"
    /\ SummaryOrderOnce

\* the local summary was returned after both remote attempts had failed
SummaryFellBackToLocal ==
    /\ Len(summary_log) = 3
    /\ summary_data.source = "local"

\* C28: every run that has ended has left the review in a terminal state:
\* the results were saved through reviews:setResults or the status is
\* 'failed'; the status is never left at 'processing'.
C28_TerminalState ==
    run_pc = "finished" =>
        /\ review.results # <<>> \/ review.status = "failed"
        /\ review.status # "processing"

\* a run returned normally, its final save failed and the review is still
\* 'processing'
SaveFailedLeftProcessing ==
    /\ run_pc = "finished"
    /\ summary_data # <<>>
    /\ summary_data.dict
    /\ review = [status |-> "processing", results |-> <<>>]

====
